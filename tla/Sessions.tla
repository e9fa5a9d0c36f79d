------------------------------ MODULE Sessions ------------------------------
(***************************************************************************)
(* Sessions, the window in which a user may upload, and what hangs on a    *)
(* session (internal/storage/postgres/session_repo.go, handlers            *)
(* sessions.go and images.go, SessionWindow of middleware.go, the foreign  *)
(* keys of migrations/0002_core.sql): images, their jobs and their links   *)
(* to questions.  An upload is checked, read, stored and queued in         *)
(* separate steps; a list reads images and jobs with two queries; the      *)
(* deletion of a user (UserRepo.Delete) cascades through all of it, also   *)
(* while an upload, a list or a run of the pipeline is in flight.          *)
(*                                                                         *)
(* Jobs and runs appear only as far as they meet sessions: JobQueue and    *)
(* Pipeline have them in full.  Here a job is reaped when its run is gone. *)
(* The clock counts half seconds, because expires_at is cut to whole ones  *)
(* before it is compared; the database's and the program's clock are one.  *)
(***************************************************************************)
EXTENDS Integers, FiniteSets

CONSTANTS
  Users,
  SessionIds,
  NoSession,
  Images,            \* the uploads; each stores at most one image
  Lists,             \* GET requests for a session's images
  Durations,         \* duration_seconds of the requests
  Buffers,           \* buffer_seconds of the requests
  MaxInt,            \* the largest int of PostgreSQL
  MaxQueueAttempts,  \* config.PipelineConfig.MaxQueueAttempts
  MaxClock,          \* bound: half seconds the behaviour lasts
  LastStart,         \* bound: when sessions stop being created
  MaxFaults          \* bound: failed statements and vanished runs

ASSUME SessionsAssumption ==
  /\ NoSession \notin SessionIds /\ "nobody" \notin Users
  /\ Durations \subseteq Nat \ {0} /\ Buffers \subseteq Nat
  /\ MaxInt \in Nat /\ MaxClock \in Nat /\ LastStart \in Nat
  /\ MaxQueueAttempts \in Nat \ {0} /\ MaxFaults \in Nat

VARIABLES
  clock,    \* half seconds
  users,    \* SUBSET Users, the accounts that have not been deleted
  session,  \* [SessionIds -> SessionRows \cup {NoRow}], also of deleted ones
  up,       \* [Images -> UploadPcs], where the upload is
  home,     \* [Images -> SessionIds \cup {NoSession}], the session it is for
  images,   \* SUBSET Images, the images table
  phase,    \* [Images -> Phases], the status of the image's job
  tries,    \* [Images -> Nat], its attempts
  run,      \* [Images -> RunPcs], the run of the image's job
  links,    \* SUBSET Images, those with a row in session_questions
  list,     \* what each list request has read, and what it has answered
  faults

jobVars == <<phase, tries>>
uploadVars == <<up, home>>
vars == <<clock, users, session, uploadVars, images, jobVars, run, links, list,
          faults>>

Settled == {"done", "failed"}
Phases  == {"absent", "pending", "processing"} \cup Settled

\* admitted  SessionWindow has let the request pass; its body is being read
\* stored    images.Create has returned, Enqueue comes next
UploadPcs == {"none", "admitted", "stored", "accepted", "refused"}
RunPcs    == {"none", "load", "link", "completing", "failing"}
\* answered  with the statuses that the query found
\* degraded  without any, because the query failed
ListPcs   == {"idle", "admitted", "images", "answered", "degraded"}

SessionRows == [owner : Users, status : {"open", "closed", "gone"},
                started : Nat, expires : Nat, duration : Durations,
                buffer : Buffers]
NoRow == [owner |-> "nobody", status |-> "absent", started |-> 0, expires |-> 0,
          duration |-> 0, buffer |-> 0]
IdleList == [pc |-> "idle", of |-> NoSession, images |-> {}, unknown |-> {}]

Init ==
  /\ clock = 0
  /\ users = Users
  /\ session = [s \in SessionIds |-> NoRow]
  /\ up = [i \in Images |-> "none"]
  /\ home = [i \in Images |-> NoSession]
  /\ images = {}
  /\ phase = [i \in Images |-> "absent"]
  /\ tries = [i \in Images |-> 0]
  /\ run = [i \in Images |-> "none"]
  /\ links = {}
  /\ list = [l \in Lists |-> IdleList]
  /\ faults = 0

Tick ==
  /\ clock < MaxClock
  /\ clock' = clock + 1
  /\ UNCHANGED <<users, session, uploadVars, images, jobVars, run, links, list,
                 faults>>

Fault == faults < MaxFaults /\ faults' = faults + 1

-----------------------------------------------------------------------------
(* Sessions *)

Alive(s) == s \in SessionIds /\ session[s].status \in {"open", "closed"}
Gone(s)  == s \in SessionIds /\ session[s].status = "gone"

\* Mutant of Create: duration plus buffer wraps around.
CreateWraps(u, s, d, b) ==
  /\ u \in users /\ session[s] = NoRow /\ clock <= LastStart
  /\ session' = [session EXCEPT ![s] =
       [owner |-> u, status |-> "open", started |-> clock,
        expires |-> clock + 2 * ((d + b) % (MaxInt + 1)),
        duration |-> d, buffer |-> b]]
  /\ UNCHANGED <<clock, users, uploadVars, images, jobVars, run, links, list,
                 faults>>

\* The sum of two ints is an int, or the statement fails.
Create(u, s, d, b) ==
  /\ u \in users /\ session[s] = NoRow /\ clock <= LastStart
  /\ d + b <= MaxInt
  /\ session' = [session EXCEPT ![s] =
       [owner |-> u, status |-> "open", started |-> clock,
        expires |-> clock + 2 * (d + b), duration |-> d, buffer |-> b]]
  /\ UNCHANGED <<clock, users, uploadVars, images, jobVars, run, links, list,
                 faults>>

\* The owner never changes, so the look-up before the UPDATE adds nothing.
Close(s) ==
  /\ Alive(s)
  /\ session' = [session EXCEPT ![s].status = "closed"]
  /\ UNCHANGED <<clock, users, uploadVars, images, jobVars, run, links, list,
                 faults>>

\* to_char(expires_at, ... 'HH24:MI:SS') drops the fraction of the second.
Parsed(t) == t - (t % 2)

\* SessionWindow, for the owner of the session.
Admits(s) ==
  /\ Alive(s) /\ session[s].status = "open"
  /\ clock <= Parsed(session[s].expires)

\* Mutant of DeleteUser: jobs do not go with their image.
DeleteUserKeepsJobs(u) ==
  LET dead(s) == session[s].owner = u
      lost    == {i \in images : dead(home[i])} IN
  /\ u \in users
  /\ users' = users \ {u}
  /\ session' = [s \in SessionIds |->
       IF dead(s) THEN [session[s] EXCEPT !.status = "gone"] ELSE session[s]]
  /\ images' = images \ lost
  /\ links' = links \ lost
  /\ UNCHANGED <<clock, uploadVars, jobVars, run, list, faults>>

\* DELETE FROM users: sessions go with their user, images, jobs and links with
\* their session.  Requests and runs in flight are not told.
DeleteUser(u) ==
  LET dead(s) == session[s].owner = u
      lost    == {i \in images : dead(home[i])} IN
  /\ u \in users
  /\ users' = users \ {u}
  /\ session' = [s \in SessionIds |->
       IF dead(s) THEN [session[s] EXCEPT !.status = "gone"] ELSE session[s]]
  /\ images' = images \ lost
  /\ links' = links \ lost
  /\ phase' = [i \in Images |-> IF i \in lost THEN "absent" ELSE phase[i]]
  /\ UNCHANGED <<clock, uploadVars, tries, run, list, faults>>

-----------------------------------------------------------------------------
(* POST /sessions/:id/images *)

Moves(i, from, to) == up[i] = from /\ up' = [up EXCEPT ![i] = to]

UploadAdmitted(i, s) ==
  /\ Moves(i, "none", "admitted")
  /\ Admits(s)
  /\ home' = [home EXCEPT ![i] = s]
  /\ UNCHANGED <<clock, users, session, images, jobVars, run, links, list, faults>>

\* The body is not what it should be.
UploadRejected(i) ==
  /\ Moves(i, "admitted", "refused")
  /\ UNCHANGED <<clock, users, session, home, images, jobVars, run, links, list,
                 faults>>

\* images.Create: the session need not be open any more, but it must exist.
StoreImage(i) ==
  /\ Moves(i, "admitted", "stored")
  /\ Alive(home[i])
  /\ images' = images \cup {i}
  /\ UNCHANGED <<clock, users, session, home, jobVars, run, links, list, faults>>

\* The session is gone, or the statement fails, perhaps after its execution.
StoreImageErrs(i) ==
  /\ Moves(i, "admitted", "refused")
  /\ \/ ~Alive(home[i]) /\ UNCHANGED <<images, faults>>
     \/ Fault /\ UNCHANGED images
     \/ Fault /\ Alive(home[i]) /\ images' = images \cup {i}
  /\ UNCHANGED <<clock, users, session, home, jobVars, run, links, list>>

Enqueue(i) ==
  /\ Moves(i, "stored", "accepted")
  /\ i \in images
  /\ phase' = [phase EXCEPT ![i] = "pending"]
  /\ UNCHANGED <<clock, users, session, home, images, tries, run, links, list,
                 faults>>

\* Mutant of EnqueueErrs: the error is logged and the upload answered.
EnqueueErrsLogged(i) ==
  /\ Moves(i, "stored", "accepted")
  /\ \/ i \notin images /\ UNCHANGED faults
     \/ Fault
  /\ UNCHANGED <<clock, users, session, home, images, jobVars, run, links, list>>

\* The image stays, without a job or with one the client has not heard of.
EnqueueErrs(i) ==
  /\ Moves(i, "stored", "refused")
  /\ \/ i \notin images /\ UNCHANGED <<phase, faults>>
     \/ Fault /\ UNCHANGED phase
     \/ Fault /\ i \in images /\ phase' = [phase EXCEPT ![i] = "pending"]
  /\ UNCHANGED <<clock, users, session, home, images, tries, run, links, list>>

-----------------------------------------------------------------------------
(* GET /sessions/:id/images *)

ListAdmitted(l, s) ==
  /\ list[l].pc \notin {"admitted", "images"}
  /\ Admits(s)
  /\ list' = [list EXCEPT ![l] = [IdleList EXCEPT !.pc = "admitted", !.of = s]]
  /\ UNCHANGED <<clock, users, session, uploadVars, images, jobVars, run, links,
                 faults>>

ListReadsImages(l) ==
  /\ list[l].pc = "admitted"
  /\ list' = [list EXCEPT ![l] = [@ EXCEPT
       !.pc = "images", !.images = {i \in images : home[i] = list[l].of}]]
  /\ UNCHANGED <<clock, users, session, uploadVars, images, jobVars, run, links,
                 faults>>

\* The answer is an error, and names no image.
ListReadFails(l) ==
  /\ list[l].pc = "admitted" /\ Fault
  /\ list' = [list EXCEPT ![l] = IdleList]
  /\ UNCHANGED <<clock, users, session, uploadVars, images, jobVars, run, links>>

\* FindJobStatusesBySession
WithStatus(s) == {i \in Images : home[i] = s /\ phase[i] # "absent"}

\* The images the response calls unknown: those that the statuses do not name.
Unknown(l, named) == list[l].images \ named

Responds(l, how, unknown) ==
  /\ list[l].pc = "images"
  /\ list' = [list EXCEPT ![l] = [IdleList EXCEPT !.pc = how, !.unknown = unknown]]

ListAnswers(l) ==
  /\ Responds(l, "answered", Unknown(l, WithStatus(list[l].of)))
  /\ UNCHANGED <<clock, users, session, uploadVars, images, jobVars, run, links,
                 faults>>

\* The query of the statuses fails, which is logged: the answer is a list, too,
\* with every image unknown.
ListDegrades(l) ==
  /\ Fault
  /\ Responds(l, "degraded", Unknown(l, {}))
  /\ UNCHANGED <<clock, users, session, uploadVars, images, jobVars, run, links>>

-----------------------------------------------------------------------------
(* The job of an image and the run that works on it *)

\* Mutant of Claim: the UPDATE counts the attempt but leaves the status.
ClaimLeavesPending(i) ==
  /\ phase[i] = "pending" /\ run[i] = "none"
  /\ tries' = [tries EXCEPT ![i] = @ + 1]
  /\ run' = [run EXCEPT ![i] = "load"]
  /\ UNCHANGED <<clock, users, session, uploadVars, images, phase, links, list,
                 faults>>

Claim(i) ==
  /\ phase[i] = "pending" /\ run[i] = "none"
  /\ phase' = [phase EXCEPT ![i] = "processing"]
  /\ tries' = [tries EXCEPT ![i] = @ + 1]
  /\ run' = [run EXCEPT ![i] = "load"]
  /\ UNCHANGED <<clock, users, session, uploadVars, images, links, list, faults>>

Goes(i, from, to) == run[i] = from /\ run' = [run EXCEPT ![i] = to]

\* FindByID finds the image or it has been deleted; an extraction that finds
\* nothing ends the run without a link.
RunLoads(i) ==
  /\ \/ i \in images /\ \E to \in {"link", "completing"} : Goes(i, "load", to)
     \/ i \notin images /\ Goes(i, "load", "failing")
  /\ UNCHANGED <<clock, users, session, uploadVars, images, jobVars, links, list,
                 faults>>

\* Mutant of RunLinks: no foreign key.
RunLinksUnchecked(i) ==
  /\ Goes(i, "link", "completing")
  /\ links' = links \cup {i}
  /\ UNCHANGED <<clock, users, session, uploadVars, images, jobVars, list, faults>>

\* The foreign keys of session_questions refuse a link to what was deleted.
RunLinks(i) ==
  /\ \/ i \in images /\ Goes(i, "link", "completing") /\ links' = links \cup {i}
     \/ i \notin images /\ Goes(i, "link", "failing") /\ UNCHANGED links
  /\ UNCHANGED <<clock, users, session, uploadVars, images, jobVars, list, faults>>

\* Complete and Fail change a job only while it is processing, if it is there.
RunEnds(i) ==
  /\ run[i] \in {"completing", "failing"}
  /\ run' = [run EXCEPT ![i] = "none"]
  /\ phase' = IF phase[i] = "processing"
              THEN [phase EXCEPT ![i] =
                      IF run[i] = "completing" THEN "done" ELSE "failed"]
              ELSE phase
  /\ UNCHANGED <<clock, users, session, uploadVars, images, tries, links, list,
                 faults>>

RunVanishes(i) ==
  /\ run[i] # "none" /\ Fault
  /\ run' = [run EXCEPT ![i] = "none"]
  /\ UNCHANGED <<clock, users, session, uploadVars, images, jobVars, links, list>>

\* Mutant of Reap: a job on its last attempt but one is neither returned nor
\* failed.
ReapReturnsFewer(i) ==
  /\ phase[i] = "processing" /\ run[i] = "none"
  /\ tries[i] + 1 < MaxQueueAttempts \/ tries[i] >= MaxQueueAttempts
  /\ phase' = [phase EXCEPT
       ![i] = IF tries[i] < MaxQueueAttempts THEN "pending" ELSE "failed"]
  /\ UNCHANGED <<clock, users, session, uploadVars, images, tries, run, links,
                 list, faults>>

Reap(i) ==
  /\ phase[i] = "processing" /\ run[i] = "none"
  /\ phase' = [phase EXCEPT
       ![i] = IF tries[i] < MaxQueueAttempts THEN "pending" ELSE "failed"]
  /\ UNCHANGED <<clock, users, session, uploadVars, images, tries, run, links,
                 list, faults>>

-----------------------------------------------------------------------------
UploadStep(i) ==
  \/ UploadRejected(i) \/ StoreImage(i) \/ StoreImageErrs(i)
  \/ Enqueue(i) \/ EnqueueErrs(i)

ListStep(l) ==
  \/ ListReadsImages(l) \/ ListReadFails(l) \/ ListAnswers(l) \/ ListDegrades(l)

JobStep(i) ==
  \/ Claim(i) \/ RunLoads(i) \/ RunLinks(i) \/ RunEnds(i) \/ RunVanishes(i)
  \/ Reap(i)

Next ==
  \/ Tick
  \/ \E u \in Users : DeleteUser(u)
  \/ \E u \in Users, s \in SessionIds, d \in Durations, b \in Buffers :
       Create(u, s, d, b)
  \/ \E s \in SessionIds : Close(s)
  \/ \E i \in Images, s \in SessionIds : UploadAdmitted(i, s)
  \/ \E i \in Images : UploadStep(i) \/ JobStep(i)
  \/ \E l \in Lists, s \in SessionIds : ListAdmitted(l, s)
  \/ \E l \in Lists : ListStep(l)

Spec == Init /\ [][Next]_vars

\* Workers poll, a run returns, the reaper ticks.  Nothing is assumed of the
\* clients and of the clock.
FairSpec == Spec /\ \A i \in Images : WF_vars(JobStep(i))

-----------------------------------------------------------------------------
(* What sessions promise *)

\* The values the variables take; a request is for a session that was created.
TypeOK ==
  /\ clock \in 0..MaxClock
  /\ users \subseteq Users
  /\ session \in [SessionIds -> SessionRows \cup {NoRow}]
  /\ up \in [Images -> UploadPcs]
  /\ home \in [Images -> SessionIds \cup {NoSession}]
  /\ \A i \in Images : home[i] = NoSession <=> up[i] = "none"
  /\ images \subseteq Images /\ links \subseteq Images
  /\ phase \in [Images -> Phases]
  /\ tries \in [Images -> 0..MaxQueueAttempts]
  /\ run \in [Images -> RunPcs]
  /\ list \in [Lists -> [pc : ListPcs, of : SessionIds \cup {NoSession},
                        images : SUBSET Images, unknown : SUBSET Images]]
  /\ faults \in 0..MaxFaults

\* Every row has the rows it refers to, although runs and uploads go on with an
\* image or a session that has been deleted under them: sessions have a user,
\* images a living session, jobs and links an image.
NothingDangles ==
  /\ \A s \in SessionIds : Alive(s) => session[s].owner \in users
  /\ \A i \in images : Alive(home[i])
  /\ \A i \in Images : phase[i] # "absent" => i \in images
  /\ links \subseteq images

\* With a buffer of a second or more, a session that nobody closes admits its
\* owner for the whole duration, although its expiry is cut to whole seconds,
\* and never after duration and buffer are over.
OpenForDuration ==
  \A s \in SessionIds : session[s].status = "open" =>
    LET age == clock - session[s].started IN
    /\ session[s].buffer >= 1 /\ age <= 2 * session[s].duration => Admits(s)
    /\ Admits(s) => age <= 2 * (session[s].duration + session[s].buffer)

\* An upload that was answered 202 has its job, whatever became of the session
\* since the request was admitted, as long as the session is not deleted.
AcceptedHasJob ==
  \A i \in Images :
    up[i] = "accepted" /\ Alive(home[i]) => phase[i] # "absent"

\* A list that calls the status of an accepted upload unknown has failed to read
\* the statuses (images.go:112, "degrade gracefully"): when the query succeeds,
\* unknown is only an upload that was not accepted, because the images are read
\* before the statuses and a job that exists is there for good, unless the session
\* is deleted between the two queries.
UnknownIsUnaccepted ==
  [][\A l \in Lists :
       list[l].pc = "images" /\ list'[l].pc # "images" /\ Alive(list[l].of) =>
         \A i \in list'[l].unknown :
           up[i] = "accepted" => list'[l].pc = "degraded"]_vars

\* A job of a session that is gone is gone, too.
lifePhase ==
  [i \in Images |-> IF Gone(home[i]) THEN "withdrawn" ELSE phase[i]]

\* The job of an image follows the life cycle the queue promises, until it goes
\* with its session: whoever claims, reaps or decides a job meanwhile, nothing
\* comes back.
Lifecycle == INSTANCE JobLifecycle
  WITH Jobs <- Images, MaxTries <- MaxQueueAttempts, Withdrawable <- Images,
       phase <- lifePhase

ImplementsLifecycle == Lifecycle!Spec

\* Every accepted upload is decided, also in a session that is closed or has
\* expired, unless the session is deleted.
AcceptedIsDecided ==
  \A i \in Images :
    up[i] = "accepted" ~> phase[i] \in Settled \/ Gone(home[i])
=============================================================================
