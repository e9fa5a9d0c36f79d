--------------------------- MODULE SessionsProofs ---------------------------
(***************************************************************************)
(* Proofs about Sessions for every set of users, sessions and uploads,     *)
(* every duration and buffer, and every bound.                             *)
(***************************************************************************)
EXTENDS Sessions, TLAPS

-----------------------------------------------------------------------------
(* The inductive invariant *)

\* A pending job has an attempt left, and an upload that has not reached the
\* queue has no job.
JobInv ==
  \A i \in Images :
    /\ phase[i] = "pending" => tries[i] < MaxQueueAttempts
    /\ up[i] \in {"none", "admitted", "stored"} =>
         phase[i] = "absent" /\ tries[i] = 0

\* A request is for a session that was created: it cannot be created again
\* under an upload that outlives it.
HomesExist ==
  \A i \in Images : home[i] # NoSession => session[home[i]] # NoRow

\* What a list has read belongs to its session.
ListHomes ==
  \A l \in Lists : \A i \in list[l].images :
    home[i] = list[l].of /\ up[i] # "none"

ExpiryInv ==
  \A s \in SessionIds : session[s] # NoRow =>
    session[s].expires =
      session[s].started + 2 * (session[s].duration + session[s].buffer)

SessionsInv ==
  /\ TypeOK /\ JobInv /\ NothingDangles /\ AcceptedHasJob
  /\ HomesExist /\ ListHomes /\ ExpiryInv

-----------------------------------------------------------------------------
(* Facts about rows *)

LEMMA RowFacts ==
  ASSUME TypeOK, NEW s \in SessionIds
  PROVE  /\ session[s] # NoRow => session[s] \in SessionRows
         /\ Alive(s) => session[s] # NoRow
         /\ session[s].status = "open" => Alive(s)
         /\ session[s].owner \in Users => session[s] \in SessionRows
  BY SessionsAssumption DEF TypeOK, NoRow, Alive

\* An image that is stored has been admitted.
LEMMA StoredFacts ==
  ASSUME TypeOK, NothingDangles, NEW i \in images
  PROVE  i \in Images /\ home[i] \in SessionIds /\ up[i] # "none"
  BY SessionsAssumption DEF TypeOK, NothingDangles, Alive

ListRequests == [pc : ListPcs, of : SessionIds \cup {NoSession},
                 images : SUBSET Images, unknown : SUBSET Images]

LEMMA IdleListType == IdleList \in ListRequests
  BY DEF IdleList, ListPcs, ListRequests

\* A response calls images unknown that the request has read, and forgets them.
LEMMA RespondsFacts ==
  ASSUME TypeOK, NEW l \in Lists, NEW how \in {"answered", "degraded"}, NEW named,
         Responds(l, how, Unknown(l, named))
  PROVE  /\ list' \in [Lists -> ListRequests]
         /\ list'[l].images = {} /\ list'[l].pc = how
         /\ list'[l].unknown = list[l].images \ named
<1>1. list \in [Lists -> ListRequests]  BY DEF TypeOK, ListRequests
<1>2. list[l].images \in SUBSET Images  BY <1>1 DEF ListRequests
<1> DEFINE answer == [IdleList EXCEPT !.pc = how, !.unknown = list[l].images \ named]
<1>3. answer \in ListRequests
  BY <1>2 DEF IdleList, ListRequests, ListPcs
<1>4. answer.images = {} /\ answer.pc = how /\ answer.unknown = list[l].images \ named
  BY DEF IdleList
<1>5. list' = [list EXCEPT ![l] = answer]  BY DEF Responds, Unknown
<1> HIDE DEF answer
<1>6. list' \in [Lists -> ListRequests]  BY <1>1, <1>3, <1>5
<1>7. list'[l] = answer  BY <1>1, <1>5
<1> QED BY <1>4, <1>6, <1>7

-----------------------------------------------------------------------------
LEMMA InvInit == Init => SessionsInv
<1> SUFFICES ASSUME Init PROVE SessionsInv  OBVIOUS
<1> USE SessionsAssumption DEF Init
<1>1. TypeOK
  BY IdleListType DEF TypeOK, UploadPcs, Phases, Settled, RunPcs, ListRequests
<1>2. JobInv /\ HomesExist /\ ExpiryInv  BY DEF JobInv, HomesExist, ExpiryInv
<1>3. NothingDangles /\ AcceptedHasJob
  BY DEF NothingDangles, AcceptedHasJob, Alive, NoRow
<1>4. ListHomes  BY DEF ListHomes, IdleList
<1> QED BY <1>1, <1>2, <1>3, <1>4 DEF SessionsInv

-----------------------------------------------------------------------------
(* Type correctness *)

LEMMA TypeStep == SessionsInv /\ [Next]_vars => TypeOK'
<1> SUFFICES ASSUME SessionsInv, [Next]_vars PROVE TypeOK'  OBVIOUS
<1>0. TypeOK /\ JobInv  BY DEF SessionsInv
<1> USE SessionsAssumption, <1>0
    DEF TypeOK, UploadPcs, Phases, Settled, RunPcs, ListPcs, Fault, uploadVars,
        jobVars
<1>1. CASE Tick  BY <1>1 DEF Tick
<1>2. ASSUME NEW u \in Users, DeleteUser(u) PROVE TypeOK'
  <2>1. session' \in [SessionIds -> SessionRows \cup {NoRow}]
    <3>1. ASSUME NEW s \in SessionIds, session[s].owner = u
          PROVE  [session[s] EXCEPT !.status = "gone"] \in SessionRows
      BY <3>1, RowFacts DEF SessionRows
    <3> QED BY <1>2, <3>1 DEF DeleteUser
  <2>2. phase' \in [Images -> Phases]  BY <1>2 DEF DeleteUser
  <2> QED BY <1>2, <2>1, <2>2 DEF DeleteUser
<1>3. ASSUME NEW u \in Users, NEW s \in SessionIds, NEW d \in Durations,
             NEW b \in Buffers, Create(u, s, d, b)
      PROVE  TypeOK'
  <2>1. session'[s] \in SessionRows  BY <1>3 DEF Create, SessionRows
  <2>2. session' = [session EXCEPT ![s] = session'[s]]  BY <1>3 DEF Create
  <2>3. session' \in [SessionIds -> SessionRows \cup {NoRow}]  BY <2>1, <2>2
  <2> QED BY <1>3, <2>3 DEF Create
<1>4. ASSUME NEW s \in SessionIds, Close(s) PROVE TypeOK'
  <2>1. [session[s] EXCEPT !.status = "closed"] \in SessionRows
    BY <1>4, RowFacts DEF Close, SessionRows
  <2> QED BY <1>4, <2>1 DEF Close
<1>5. ASSUME NEW i \in Images, NEW s \in SessionIds, UploadAdmitted(i, s)
      PROVE  TypeOK'
  BY <1>5 DEF UploadAdmitted, Moves
<1>6. ASSUME NEW i \in Images, UploadStep(i) PROVE TypeOK'
  <2>1. CASE UploadRejected(i)  BY <2>1 DEF UploadRejected, Moves
  <2>2. CASE StoreImage(i)  BY <2>2 DEF StoreImage, Moves
  <2>3. CASE StoreImageErrs(i)  BY <2>3 DEF StoreImageErrs, Moves
  <2>4. CASE Enqueue(i)  BY <2>4 DEF Enqueue, Moves
  <2>5. CASE EnqueueErrs(i)  BY <2>5 DEF EnqueueErrs, Moves
  <2> QED BY <1>6, <2>1, <2>2, <2>3, <2>4, <2>5 DEF UploadStep
<1>7. ASSUME NEW i \in Images, JobStep(i) PROVE TypeOK'
  <2>1. CASE Claim(i)
    <3>1. tries[i] + 1 \in 0..MaxQueueAttempts  BY <2>1 DEF Claim, JobInv
    <3> QED BY <2>1, <3>1 DEF Claim
  <2>2. CASE RunLoads(i)  BY <2>2 DEF RunLoads, Goes
  <2>3. CASE RunLinks(i)  BY <2>3 DEF RunLinks, Goes
  <2>4. CASE RunEnds(i)  BY <2>4 DEF RunEnds
  <2>5. CASE RunVanishes(i)  BY <2>5 DEF RunVanishes
  <2>6. CASE Reap(i)  BY <2>6 DEF Reap
  <2> QED BY <1>7, <2>1, <2>2, <2>3, <2>4, <2>5, <2>6 DEF JobStep
<1>8. ASSUME NEW l \in Lists, NEW s \in SessionIds, ListAdmitted(l, s)
      PROVE  TypeOK'
  <2>1. [IdleList EXCEPT !.pc = "admitted", !.of = s] \in ListRequests
    BY DEF IdleList, ListRequests
  <2>2. list' \in [Lists -> ListRequests]
    <3>1. list \in [Lists -> ListRequests]  BY DEF ListRequests
    <3>2. list' = [list EXCEPT ![l] = [IdleList EXCEPT !.pc = "admitted", !.of = s]]
      BY <1>8 DEF ListAdmitted
    <3> QED BY <2>1, <3>1, <3>2
  <2> QED BY <1>8, <2>2 DEF ListAdmitted, ListRequests
<1>9. ASSUME NEW l \in Lists, ListStep(l) PROVE TypeOK'
  <2>1. CASE ListReadsImages(l)
    <3> DEFINE found == {i \in images : home[i] = list[l].of}
    <3>1. found \in SUBSET Images  OBVIOUS
    <3>2. list' = [list EXCEPT ![l] = [@ EXCEPT !.pc = "images", !.images = found]]
      BY <2>1 DEF ListReadsImages
    <3> HIDE DEF found
    <3>3. [list[l] EXCEPT !.pc = "images", !.images = found] \in ListRequests
      <4>1. list[l] \in ListRequests  BY DEF ListRequests
      <4>2. ASSUME NEW r \in ListRequests
            PROVE  [r EXCEPT !.pc = "images", !.images = found] \in ListRequests
        BY <3>1 DEF ListRequests
      <4> QED BY <4>1, <4>2
    <3>4. list \in [Lists -> ListRequests]  BY DEF ListRequests
    <3>5. list' \in [Lists -> ListRequests]
      <4>1. list' = [list EXCEPT ![l] =
                       [list[l] EXCEPT !.pc = "images", !.images = found]]
        BY <3>2
      <4> QED BY <3>3, <3>4, <4>1
    <3> QED BY <2>1, <3>5 DEF ListReadsImages, ListRequests
  <2>2. CASE ListReadFails(l)
    BY <2>2, IdleListType DEF ListReadFails, ListRequests
  <2>3. CASE ListAnswers(l)
    <3>1. list' \in [Lists -> ListRequests]
      BY <2>3, RespondsFacts DEF ListAnswers
    <3> QED BY <2>3, <3>1 DEF ListAnswers, ListRequests
  <2>4. CASE ListDegrades(l)
    <3>1. list' \in [Lists -> ListRequests]
      BY <2>4, RespondsFacts DEF ListDegrades
    <3> QED BY <2>4, <3>1 DEF ListDegrades, ListRequests
  <2> QED BY <1>9, <2>1, <2>2, <2>3, <2>4 DEF ListStep
<1>10. CASE UNCHANGED vars  BY <1>10 DEF vars
<1> QED
  BY <1>1, <1>2, <1>3, <1>4, <1>5, <1>6, <1>7, <1>8, <1>9, <1>10 DEF Next

-----------------------------------------------------------------------------
(* The steps that write sessions *)

LEMMA DeleteUserKeepsInv ==
  ASSUME SessionsInv, NEW u \in Users, DeleteUser(u), TypeOK'
  PROVE  SessionsInv'
<1>0. /\ TypeOK /\ JobInv /\ NothingDangles /\ AcceptedHasJob
      /\ HomesExist /\ ListHomes /\ ExpiryInv
  BY DEF SessionsInv
<1> DEFINE dead(s) == session[s].owner = u
           lost == {i \in images : dead(home[i])}
<1>1. \A s \in SessionIds :
        /\ dead(s) => session'[s] = [session[s] EXCEPT !.status = "gone"]
        /\ ~dead(s) => session'[s] = session[s]
  BY DEF DeleteUser
<1>2. \A i \in Images : phase'[i] = IF i \in lost THEN "absent" ELSE phase[i]
  BY DEF DeleteUser
<1>3. ASSUME NEW s \in SessionIds
      PROVE  /\ Alive(s)' => Alive(s) /\ ~dead(s) /\ session'[s] = session[s]
             /\ Alive(s) /\ ~dead(s) => Alive(s)'
             /\ session'[s] = NoRow <=> session[s] = NoRow
  <2>1. CASE dead(s)
    <3>1. session[s] \in SessionRows  BY <1>0, <2>1, RowFacts
    <3>2. session'[s].status = "gone"  BY <1>1, <2>1, <3>1 DEF SessionRows
    <3> QED BY <2>1, <3>1, <3>2, SessionsAssumption DEF Alive, NoRow, SessionRows
  <2>2. CASE ~dead(s)  BY <1>1, <2>2 DEF Alive
  <2> QED BY <2>1, <2>2
<1>4. /\ users' = users \ {u} /\ images' = images \ lost /\ links' = links \ lost
      /\ UNCHANGED <<clock, up, home, tries, run, list, faults>>
  BY DEF DeleteUser, uploadVars
<1> HIDE DEF lost
<1>5. JobInv'  BY <1>0, <1>2, <1>4 DEF JobInv
<1>6. NothingDangles'
  <2>1. ASSUME NEW s \in SessionIds, Alive(s)' PROVE session'[s].owner \in users'
    BY <1>0, <1>3, <1>4, <2>1 DEF NothingDangles
  <2>2. ASSUME NEW i \in images' PROVE Alive(home[i])'
    <3>1. i \in images /\ home[i] \in SessionIds /\ ~dead(home[i])
      BY <1>0, <1>4, <2>2, StoredFacts DEF lost
    <3> QED BY <1>0, <1>3, <1>4, <3>1 DEF NothingDangles, Alive
  <2>3. ASSUME NEW i \in Images, phase'[i] # "absent" PROVE i \in images'
    BY <1>0, <1>2, <1>4, <2>3 DEF NothingDangles
  <2>4. links' \subseteq images'  BY <1>0, <1>4 DEF NothingDangles
  <2> QED BY <2>1, <2>2, <2>3, <2>4 DEF NothingDangles, Alive
<1>7. AcceptedHasJob'
  <2> SUFFICES ASSUME NEW i \in Images, up[i] = "accepted", Alive(home[i])'
               PROVE  phase'[i] # "absent"
    BY <1>4 DEF AcceptedHasJob
  <2>1. Alive(home[i]) /\ ~dead(home[i])  BY <1>3, <1>4 DEF Alive
  <2> QED BY <1>0, <1>2, <2>1 DEF AcceptedHasJob, lost
<1>8. HomesExist'  BY <1>0, <1>3, <1>4 DEF HomesExist, TypeOK
<1>9. ListHomes'  BY <1>0, <1>4 DEF ListHomes
<1>10. ExpiryInv'
  <2> SUFFICES ASSUME NEW s \in SessionIds, session'[s] # NoRow
               PROVE  session'[s].expires = session'[s].started
                        + 2 * (session'[s].duration + session'[s].buffer)
    BY DEF ExpiryInv
  <2>1. session[s] \in SessionRows  BY <1>0, <1>3, RowFacts
  <2>2. /\ session'[s].expires = session[s].expires
        /\ session'[s].started = session[s].started
        /\ session'[s].duration = session[s].duration
        /\ session'[s].buffer = session[s].buffer
    BY <1>1, <2>1 DEF SessionRows
  <2> QED BY <1>0, <1>3, <2>2 DEF ExpiryInv
<1> QED BY <1>5, <1>6, <1>7, <1>8, <1>9, <1>10 DEF SessionsInv

\* A session is created: nothing hangs on it yet.
LEMMA CreateKeepsInv ==
  ASSUME SessionsInv, NEW u \in Users, NEW s \in SessionIds,
         NEW d \in Durations, NEW b \in Buffers, Create(u, s, d, b), TypeOK'
  PROVE  SessionsInv'
<1>0. /\ TypeOK /\ JobInv /\ NothingDangles /\ AcceptedHasJob
      /\ HomesExist /\ ListHomes /\ ExpiryInv
  BY DEF SessionsInv
<1>1. /\ u \in users /\ session[s] = NoRow
      /\ session' = [session EXCEPT ![s] =
           [owner |-> u, status |-> "open", started |-> clock,
            expires |-> clock + 2 * (d + b), duration |-> d, buffer |-> b]]
      /\ UNCHANGED <<users, up, home, images, phase, tries, links, list>>
  BY DEF Create, uploadVars, jobVars
<1>2. \A i \in Images : home[i] # s
  BY <1>0, <1>1, SessionsAssumption DEF HomesExist
<1>3. \A t \in SessionIds : t # s => session'[t] = session[t]
  BY <1>0, <1>1 DEF TypeOK
<1>4. JobInv' /\ ListHomes'  BY <1>0, <1>1 DEF JobInv, ListHomes
<1>5. NothingDangles'
  <2>1. session'[s].owner \in users'  BY <1>0, <1>1 DEF TypeOK
  <2> QED BY <1>0, <1>1, <1>2, <1>3, <2>1 DEF NothingDangles, Alive, TypeOK
<1>6. AcceptedHasJob'  BY <1>0, <1>1, <1>2, <1>3 DEF AcceptedHasJob, Alive
<1>7. HomesExist'  BY <1>0, <1>1, <1>2, <1>3 DEF HomesExist, TypeOK
<1>8. ExpiryInv'
  <2>1. session'[s].expires =
          session'[s].started + 2 * (session'[s].duration + session'[s].buffer)
    BY <1>0, <1>1 DEF TypeOK
  <2> QED BY <1>0, <1>3, <2>1 DEF ExpiryInv
<1> QED BY <1>4, <1>5, <1>6, <1>7, <1>8 DEF SessionsInv

LEMMA CloseKeepsInv ==
  ASSUME SessionsInv, NEW s \in SessionIds, Close(s), TypeOK'
  PROVE  SessionsInv'
<1>0. /\ TypeOK /\ JobInv /\ NothingDangles /\ AcceptedHasJob
      /\ HomesExist /\ ListHomes /\ ExpiryInv
  BY DEF SessionsInv
<1>1. /\ Alive(s)
      /\ session' = [session EXCEPT ![s].status = "closed"]
      /\ UNCHANGED <<users, up, home, images, phase, tries, links, list>>
  BY DEF Close, uploadVars, jobVars
<1>2. session[s] # NoRow /\ session[s] \in SessionRows
  BY <1>0, <1>1, RowFacts
<1>3. /\ \A t \in SessionIds : t # s => session'[t] = session[t]
      /\ session'[s] # NoRow
      /\ session'[s].status = "closed"
      /\ session'[s].owner = session[s].owner
      /\ session'[s].expires = session[s].expires
      /\ session'[s].started = session[s].started
      /\ session'[s].duration = session[s].duration
      /\ session'[s].buffer = session[s].buffer
  BY <1>0, <1>1, <1>2 DEF TypeOK, SessionRows, NoRow
<1>4. \A t \in SessionIds : Alive(t)' <=> Alive(t)
  BY <1>1, <1>3 DEF Alive
<1>5. JobInv' /\ ListHomes'  BY <1>0, <1>1 DEF JobInv, ListHomes
<1>6. NothingDangles' /\ AcceptedHasJob'
  BY <1>0, <1>1, <1>3, <1>4 DEF NothingDangles, AcceptedHasJob, Alive
<1>7. HomesExist'  BY <1>0, <1>1, <1>3 DEF HomesExist, TypeOK
<1>8. ExpiryInv'  BY <1>0, <1>2, <1>3 DEF ExpiryInv
<1> QED BY <1>5, <1>6, <1>7, <1>8 DEF SessionsInv

-----------------------------------------------------------------------------
(* The steps of uploads, jobs and lists, which write no session *)

LEMMA UploadAdmittedKeepsInv ==
  ASSUME SessionsInv, NEW i \in Images, NEW s \in SessionIds,
         UploadAdmitted(i, s), TypeOK'
  PROVE  SessionsInv'
<1>0. /\ TypeOK /\ JobInv /\ NothingDangles /\ AcceptedHasJob
      /\ HomesExist /\ ListHomes /\ ExpiryInv
  BY DEF SessionsInv
<1>1. /\ up[i] = "none" /\ Alive(s)
      /\ up' = [up EXCEPT ![i] = "admitted"] /\ home' = [home EXCEPT ![i] = s]
      /\ UNCHANGED <<users, session, images, phase, tries, links, list>>
  BY DEF UploadAdmitted, Moves, Admits, jobVars
<1>2. i \notin images  BY <1>0, <1>1, StoredFacts
<1>3. JobInv'  BY <1>0, <1>1 DEF JobInv, TypeOK
<1>4. NothingDangles'
  BY <1>0, <1>1, <1>2 DEF NothingDangles, Alive, TypeOK
<1>5. AcceptedHasJob'  BY <1>0, <1>1 DEF AcceptedHasJob, Alive, TypeOK
<1>6. HomesExist'  BY <1>0, <1>1, RowFacts DEF HomesExist, TypeOK
<1>7. ListHomes'  BY <1>0, <1>1 DEF ListHomes, TypeOK
<1>8. ExpiryInv'  BY <1>0, <1>1 DEF ExpiryInv
<1> QED BY <1>3, <1>4, <1>5, <1>6, <1>7, <1>8 DEF SessionsInv

\* An upload writes its image and its job, and only while the session is there.
LEMMA UploadStepKeepsInv ==
  ASSUME SessionsInv, NEW i \in Images, UploadStep(i), TypeOK'
  PROVE  SessionsInv'
<1>0. /\ TypeOK /\ JobInv /\ NothingDangles /\ AcceptedHasJob
      /\ HomesExist /\ ListHomes /\ ExpiryInv
  BY DEF SessionsInv
<1>1. UNCHANGED <<users, session, home, tries, links, list>>
  BY DEF UploadStep, UploadRejected, StoreImage, StoreImageErrs, Enqueue,
         EnqueueErrs, jobVars
<1>2. up[i] \in {"admitted", "stored"}
  BY DEF UploadStep, UploadRejected, StoreImage, StoreImageErrs, Enqueue,
         EnqueueErrs, Moves
<1>3. /\ up' = [up EXCEPT ![i] = up'[i]]
      /\ up'[i] \in {"stored", "accepted", "refused"}
  BY <1>0 DEF UploadStep, UploadRejected, StoreImage, StoreImageErrs, Enqueue,
              EnqueueErrs, Moves, TypeOK
<1>4. \/ images' = images
      \/ images' = images \cup {i} /\ Alive(home[i])
  BY DEF UploadStep, UploadRejected, StoreImage, StoreImageErrs, Enqueue,
         EnqueueErrs
<1>5. \/ phase' = phase /\ up'[i] # "accepted"
      \/ /\ i \in images /\ phase' = [phase EXCEPT ![i] = "pending"]
         /\ up'[i] \in {"accepted", "refused"}
  BY <1>0 DEF UploadStep, UploadRejected, StoreImage, StoreImageErrs, Enqueue,
              EnqueueErrs, Moves, jobVars, TypeOK
<1>6. JobInv'
  BY <1>0, <1>1, <1>2, <1>3, <1>5, SessionsAssumption DEF JobInv, TypeOK
<1>7. NothingDangles'
  BY <1>0, <1>1, <1>4, <1>5 DEF NothingDangles, Alive, TypeOK
<1>8. AcceptedHasJob'
  BY <1>0, <1>1, <1>3, <1>5 DEF AcceptedHasJob, Alive, TypeOK
<1>9. ListHomes'  BY <1>0, <1>1, <1>3 DEF ListHomes, TypeOK
<1>10. HomesExist' /\ ExpiryInv'  BY <1>0, <1>1 DEF HomesExist, ExpiryInv
<1> QED BY <1>6, <1>7, <1>8, <1>9, <1>10 DEF SessionsInv

\* A run and the reaper never make a job appear or disappear, and link an image
\* only while it is there.
LEMMA JobStepKeepsInv ==
  ASSUME SessionsInv, NEW i \in Images, JobStep(i), TypeOK'
  PROVE  SessionsInv'
<1>0. /\ TypeOK /\ JobInv /\ NothingDangles /\ AcceptedHasJob
      /\ HomesExist /\ ListHomes /\ ExpiryInv
  BY DEF SessionsInv
<1> USE DEF JobStep, Claim, RunLoads, RunLinks, RunEnds, RunVanishes, Reap
<1>1. UNCHANGED <<users, session, up, home, images, list>>
  BY DEF uploadVars
<1>2. /\ phase' = [phase EXCEPT ![i] = phase'[i]]
      /\ tries' = [tries EXCEPT ![i] = tries'[i]]
      /\ phase[i] = "absent" <=> phase'[i] = "absent"
      /\ phase[i] = "absent" => tries'[i] = tries[i]
  BY <1>0 DEF TypeOK, jobVars, Goes
<1>3. phase'[i] = "pending" => tries'[i] < MaxQueueAttempts
  BY <1>0 DEF JobInv, TypeOK, jobVars, Goes
<1>4. links' = links \/ (i \in images /\ links' = links \cup {i})
  OBVIOUS
<1> USE DEF TypeOK
<1>5. JobInv'  BY <1>0, <1>1, <1>2, <1>3 DEF JobInv
<1>6. NothingDangles'  BY <1>0, <1>1, <1>2, <1>4 DEF NothingDangles, Alive
<1>7. AcceptedHasJob'  BY <1>0, <1>1, <1>2 DEF AcceptedHasJob, Alive
<1>8. HomesExist' /\ ListHomes' /\ ExpiryInv'
  BY <1>0, <1>1 DEF HomesExist, ListHomes, ExpiryInv
<1> QED BY <1>5, <1>6, <1>7, <1>8 DEF SessionsInv

\* A list reads the images of its session, all of them admitted.
LEMMA ListKeepsInv ==
  ASSUME SessionsInv, NEW l \in Lists, TypeOK',
         ListStep(l) \/ \E s \in SessionIds : ListAdmitted(l, s)
  PROVE  SessionsInv'
<1>0. /\ TypeOK /\ JobInv /\ NothingDangles /\ AcceptedHasJob
      /\ HomesExist /\ ListHomes /\ ExpiryInv
  BY DEF SessionsInv
<1>1. UNCHANGED <<users, session, up, home, images, phase, tries, links>>
  BY DEF ListStep, ListAdmitted, ListReadsImages, ListReadFails, ListAnswers,
         ListDegrades, uploadVars, jobVars
<1>2. \A k \in Lists : k # l => list'[k] = list[k]
  BY <1>0
  DEF ListStep, ListAdmitted, ListReadsImages, ListReadFails, ListAnswers,
      ListDegrades, Responds, TypeOK
<1>3. \A i \in list'[l].images : home[i] = list'[l].of /\ up[i] # "none"
  <2>1. CASE ListReadsImages(l)
    <3> DEFINE found == {i \in images : home[i] = list[l].of}
    <3>1. \A i \in found : home[i] = list[l].of /\ up[i] # "none"
      BY <1>0, StoredFacts
    <3>2. list'[l].of = list[l].of /\ list'[l].images = found
      BY <1>0, <2>1 DEF ListReadsImages, TypeOK
    <3> HIDE DEF found
    <3> QED BY <3>1, <3>2
  <2>2. CASE ListReadFails(l)
    BY <1>0, <2>2 DEF ListReadFails, IdleList, TypeOK
  <2>3. CASE ListAnswers(l)
    <3>1. list'[l].images = {}  BY <1>0, <2>3, RespondsFacts DEF ListAnswers
    <3> QED BY <3>1
  <2>4. CASE ListDegrades(l)
    <3>1. list'[l].images = {}  BY <1>0, <2>4, RespondsFacts DEF ListDegrades
    <3> QED BY <3>1
  <2>5. ASSUME NEW s \in SessionIds, ListAdmitted(l, s)
        PROVE  list'[l].images = {}
    BY <1>0, <2>5 DEF ListAdmitted, IdleList, TypeOK
  <2> QED BY <2>1, <2>2, <2>3, <2>4, <2>5 DEF ListStep
<1>4. ListHomes'  BY <1>0, <1>1, <1>2, <1>3 DEF ListHomes
<1>5. /\ JobInv' /\ NothingDangles' /\ AcceptedHasJob' /\ HomesExist'
      /\ ExpiryInv'
  BY <1>0, <1>1
  DEF JobInv, NothingDangles, AcceptedHasJob, HomesExist, ExpiryInv, Alive
<1> QED BY <1>4, <1>5 DEF SessionsInv

-----------------------------------------------------------------------------
(* The theorems *)

LEMMA InvStep == SessionsInv /\ [Next]_vars => SessionsInv'
<1> SUFFICES ASSUME SessionsInv, [Next]_vars PROVE SessionsInv'  OBVIOUS
<1>1. TypeOK'  BY TypeStep
<1>2. ASSUME UNCHANGED <<users, session, up, home, images, phase, tries, links,
                         list>>
      PROVE  SessionsInv'
  BY <1>1, <1>2
  DEF SessionsInv, JobInv, NothingDangles, AcceptedHasJob, HomesExist, ListHomes,
      ExpiryInv, Alive
<1>3. CASE Tick  BY <1>2, <1>3 DEF Tick, uploadVars, jobVars
<1>4. CASE UNCHANGED vars  BY <1>2, <1>4 DEF vars, uploadVars, jobVars
<1> QED
  BY <1>1, <1>3, <1>4, DeleteUserKeepsInv, CreateKeepsInv, CloseKeepsInv,
     UploadAdmittedKeepsInv, UploadStepKeepsInv, JobStepKeepsInv, ListKeepsInv
  DEF Next

\* The inductive invariant.
THEOREM SessionsInvCorrect == Spec => []SessionsInv
<1> QED BY InvInit, InvStep, PTL DEF Spec

\* The types alone, of every variable in every reachable state.
THEOREM SessionTypesCorrect == Spec => []TypeOK
<1>1. SessionsInv => TypeOK  BY DEF SessionsInv
<1> QED BY <1>1, SessionsInvCorrect, PTL

\* Deletions, uploads and runs never leave a row that refers to nothing.
THEOREM NothingEverDangles == Spec => []NothingDangles
<1>1. SessionsInv => NothingDangles  BY DEF SessionsInv
<1> QED BY <1>1, SessionsInvCorrect, PTL

\* An answered upload has its job while its session is there.
THEOREM AcceptedUploadsHaveJobs == Spec => []AcceptedHasJob
<1>1. SessionsInv => AcceptedHasJob  BY DEF SessionsInv
<1> QED BY <1>1, SessionsInvCorrect, PTL

\* What a list has read belongs to its session for good, so an accepted image among
\* it has a job, which the query of the statuses finds if it succeeds.
LEMMA AcceptedIsNamed ==
  ASSUME SessionsInv, NEW l \in Lists, Alive(list[l].of),
         NEW i \in Unknown(l, WithStatus(list[l].of))
  PROVE  up[i] # "accepted"
<1> SUFFICES ASSUME up[i] = "accepted" PROVE FALSE  OBVIOUS
<1>1. i \in list[l].images /\ i \in Images  BY DEF Unknown, SessionsInv, TypeOK
<1>2. home[i] = list[l].of  BY <1>1 DEF SessionsInv, ListHomes
<1>3. phase[i] # "absent"  BY <1>1, <1>2 DEF SessionsInv, AcceptedHasJob
<1> QED BY <1>1, <1>2, <1>3 DEF Unknown, WithStatus

\* With the statuses read, unknown is only an upload between its two inserts or
\* after a failure between them; every other answer that calls an accepted upload
\* unknown is that of a list whose query of the statuses has failed.
THEOREM UnknownMeansUnaccepted == Spec => UnknownIsUnaccepted
<1>1. SessionsInv /\ [Next]_vars =>
        [\A l \in Lists :
           list[l].pc = "images" /\ list'[l].pc # "images" /\ Alive(list[l].of) =>
             \A i \in list'[l].unknown :
               up[i] = "accepted" => list'[l].pc = "degraded"]_vars
  <2> SUFFICES ASSUME SessionsInv, Next, NEW l \in Lists, list[l].pc = "images",
                      list'[l].pc # "images", Alive(list[l].of),
                      NEW i \in list'[l].unknown, list'[l].pc # "degraded"
               PROVE  up[i] # "accepted"
    OBVIOUS
  <2>0. TypeOK  BY DEF SessionsInv
  <2>1. ListAnswers(l) \/ ListDegrades(l)
    <3>1. \A k \in Lists : ListStep(k) =>
            k = l /\ ~ListReadsImages(k) /\ ~ListReadFails(k)
      BY <2>0
      DEF ListStep, ListReadsImages, ListReadFails, ListAnswers, ListDegrades,
          Responds, TypeOK
    <3>2. \A k \in Lists, s \in SessionIds : ~ListAdmitted(k, s)
      BY <2>0 DEF ListAdmitted, TypeOK
    <3>3. \E k \in Lists : ListStep(k)
      BY <3>2
      DEF Next, Tick, DeleteUser, Create, Close, UploadAdmitted, UploadStep,
          UploadRejected, StoreImage, StoreImageErrs, Enqueue, EnqueueErrs, JobStep,
          Claim, RunLoads, RunLinks, RunEnds, RunVanishes, Reap
    <3> QED BY <3>1, <3>3 DEF ListStep
  <2>2. CASE ListAnswers(l)
    <3>1. i \in Unknown(l, WithStatus(list[l].of))
      BY <2>0, <2>2, RespondsFacts DEF ListAnswers, Unknown
    <3> QED BY <3>1, AcceptedIsNamed
  <2>3. CASE ListDegrades(l)
    <3>1. list'[l].pc = "degraded"
      BY <2>0, <2>3, RespondsFacts DEF ListDegrades
    <3> QED BY <3>1
  <2> QED BY <2>1, <2>2, <2>3
<1> QED BY <1>1, SessionsInvCorrect, PTL DEF Spec, UnknownIsUnaccepted

\* Cutting the expiry to whole seconds costs less than a second: a buffer of one
\* is enough to have the whole duration, and the sum is never exceeded.
THEOREM SessionsOpenForDuration == Spec => []OpenForDuration
<1>1. SessionsInv => OpenForDuration
  <2> SUFFICES ASSUME SessionsInv, NEW s \in SessionIds,
                      session[s].status = "open"
               PROVE  LET age == clock - session[s].started IN
                      /\ session[s].buffer >= 1 /\ age <= 2 * session[s].duration
                           => Admits(s)
                      /\ Admits(s) =>
                           age <= 2 * (session[s].duration + session[s].buffer)
    BY DEF OpenForDuration
  <2> DEFINE row == session[s]
  <2>1. TypeOK /\ ExpiryInv  BY DEF SessionsInv
  <2>2. Alive(s) /\ row \in SessionRows /\ row # NoRow  BY <2>1, RowFacts
  <2>3. row.expires = row.started + 2 * (row.duration + row.buffer)
    BY <2>1, <2>2 DEF ExpiryInv
  <2>4. /\ row.expires \in Nat /\ row.started \in Nat /\ row.duration \in Nat
        /\ row.buffer \in Nat /\ clock \in Nat
    <3>1. row.duration \in Durations /\ row.buffer \in Buffers
      BY <2>2 DEF SessionRows
    <3>2. row.expires \in Nat /\ row.started \in Nat
      BY <2>2 DEF SessionRows
    <3>3. clock \in Nat  BY <2>1, SessionsAssumption DEF TypeOK
    <3> HIDE DEF row
    <3> QED BY <3>1, <3>2, <3>3, SessionsAssumption
  <2>5. ASSUME NEW t \in Nat PROVE Parsed(t) \in {t, t - 1}
    BY DEF Parsed
  <2>6. Parsed(row.expires) \in {row.expires, row.expires - 1}  BY <2>4, <2>5
  <2> QED BY <2>2, <2>3, <2>4, <2>6 DEF Admits
<1> QED BY <1>1, SessionsInvCorrect, PTL

-----------------------------------------------------------------------------
(* Sessions implements JobLifecycle *)

\* A session that is gone stays gone, and nothing is left of its images.
LEMMA GoneFacts ==
  ASSUME SessionsInv, [Next]_vars, NEW k \in Images
  PROVE  /\ Gone(home[k]) => Gone(home[k])' /\ k \notin images /\ phase[k] = "absent"
         /\ Gone(home[k])' /\ ~Gone(home[k]) => \E u \in Users : DeleteUser(u)
<1>0. TypeOK /\ NothingDangles  BY DEF SessionsInv
<1>1. Gone(home[k]) => k \notin images /\ phase[k] = "absent"
  BY <1>0 DEF NothingDangles, Gone, Alive
<1>2. CASE UNCHANGED <<session, home>>  BY <1>1, <1>2 DEF Gone
<1>3. ASSUME NEW u \in Users, DeleteUser(u)
      PROVE  Gone(home[k]) => Gone(home[k])'
  <2>1. home' = home  BY <1>3 DEF DeleteUser, uploadVars
  <2>2. \A s \in SessionIds : session[s].status = "gone" => session'[s].status = "gone"
    <3>1. ASSUME NEW s \in SessionIds, session[s].status = "gone"
          PROVE  session'[s].status = "gone"
      <4>1. session[s] \in SessionRows  BY <1>0, <3>1 DEF TypeOK, NoRow
      <4>2. [session[s] EXCEPT !.status = "gone"].status = "gone"
        BY <4>1 DEF SessionRows
      <4> QED BY <1>3, <3>1, <4>2 DEF DeleteUser
    <3> QED BY <3>1
  <2> QED BY <2>1, <2>2 DEF Gone
<1>4. ASSUME NEW u \in Users, NEW s \in SessionIds, NEW d \in Durations,
             NEW b \in Buffers, Create(u, s, d, b)
      PROVE  Gone(home[k]) <=> Gone(home[k])'
  <2>1. home' = home /\ session[s].status # "gone"
    BY <1>4 DEF Create, uploadVars, NoRow
  <2>2. session'[s].status # "gone"  BY <1>0, <1>4 DEF Create, TypeOK
  <2>3. \A r \in SessionIds \ {s} : session'[r] = session[r]
    BY <1>0, <1>4 DEF Create, TypeOK
  <2> QED BY <2>1, <2>2, <2>3 DEF Gone
<1>5. ASSUME NEW s \in SessionIds, Close(s) PROVE Gone(home[k]) <=> Gone(home[k])'
  <2>1. home' = home /\ session[s].status # "gone"
    BY <1>5 DEF Close, uploadVars, Alive
  <2>2. session'[s].status # "gone"
    <3>1. session[s] \in SessionRows  BY <1>0, <1>5, RowFacts DEF Close, TypeOK
    <3> QED BY <1>0, <1>5, <3>1 DEF Close, TypeOK, SessionRows
  <2>3. \A r \in SessionIds \ {s} : session'[r] = session[r]
    BY <1>0, <1>5 DEF Close, TypeOK
  <2> QED BY <2>1, <2>2, <2>3 DEF Gone
<1>6. ASSUME NEW i \in Images, NEW s \in SessionIds, UploadAdmitted(i, s)
      PROVE  Gone(home[k]) <=> Gone(home[k])'
  <2>1. session' = session /\ session[s].status # "gone"
    BY <1>6 DEF UploadAdmitted, Admits
  <2>2. home[i] = NoSession /\ home'[i] = s
    BY <1>0, <1>6 DEF UploadAdmitted, Moves, TypeOK
  <2>3. \A j \in Images \ {i} : home'[j] = home[j]
    BY <1>0, <1>6 DEF UploadAdmitted, TypeOK
  <2> QED BY <2>1, <2>2, <2>3, SessionsAssumption DEF Gone
<1>7. CASE \/ Tick \/ \E i \in Images : UploadStep(i) \/ JobStep(i)
           \/ \E l \in Lists, s \in SessionIds : ListAdmitted(l, s)
           \/ \E l \in Lists : ListStep(l)
           \/ UNCHANGED vars
  <2>1. UNCHANGED <<session, home>>
    BY <1>7
    DEF Tick, UploadStep, UploadRejected, StoreImage, StoreImageErrs, Enqueue,
        EnqueueErrs, JobStep, Claim, RunLoads, RunLinks, RunEnds, RunVanishes, Reap,
        ListAdmitted, ListStep, ListReadsImages, ListReadFails, ListAnswers,
        ListDegrades, vars, uploadVars
  <2> QED BY <1>2, <2>1
<1> QED BY <1>1, <1>2, <1>3, <1>4, <1>5, <1>6, <1>7 DEF Next

\* While its session is there, a step does to a job what the queue does.
LEMMA JobMoves ==
  ASSUME SessionsInv, [Next]_vars, NEW k \in Images
  PROVE  \/ phase'[k] = phase[k] /\ tries'[k] = tries[k]
         \/ phase[k] = "absent" /\ phase'[k] = "pending" /\ tries'[k] = tries[k]
              /\ k \in images
         \/ phase[k] = "pending" /\ phase'[k] = "processing"
              /\ tries[k] < MaxQueueAttempts /\ tries'[k] = tries[k] + 1
         \/ phase[k] = "processing" /\ phase'[k] = "pending"
              /\ tries[k] < MaxQueueAttempts /\ tries'[k] = tries[k]
         \/ phase[k] = "processing" /\ phase'[k] \in Settled /\ tries'[k] = tries[k]
         \/ Gone(home[k])' /\ tries'[k] = tries[k]
<1>0. TypeOK /\ JobInv /\ NothingDangles  BY DEF SessionsInv
<1>1. ASSUME NEW i \in Images, Enqueue(i) \/ EnqueueErrs(i)
      PROVE  \/ phase'[k] = phase[k] /\ tries'[k] = tries[k]
             \/ phase[k] = "absent" /\ phase'[k] = "pending" /\ tries'[k] = tries[k]
                  /\ k \in images
  BY <1>0, <1>1 DEF Enqueue, EnqueueErrs, Moves, TypeOK, JobInv
<1>2. ASSUME NEW i \in Images, Claim(i)
      PROVE  \/ phase'[k] = phase[k] /\ tries'[k] = tries[k]
             \/ phase[k] = "pending" /\ phase'[k] = "processing"
                  /\ tries[k] < MaxQueueAttempts /\ tries'[k] = tries[k] + 1
  BY <1>0, <1>2 DEF Claim, TypeOK, JobInv
<1>3. ASSUME NEW i \in Images, RunEnds(i)
      PROVE  \/ phase'[k] = phase[k] /\ tries'[k] = tries[k]
             \/ phase[k] = "processing" /\ phase'[k] \in Settled /\ tries'[k] = tries[k]
  BY <1>0, <1>3 DEF RunEnds, TypeOK, Settled
<1>4. ASSUME NEW i \in Images, Reap(i)
      PROVE  \/ phase'[k] = phase[k] /\ tries'[k] = tries[k]
             \/ phase[k] = "processing" /\ phase'[k] = "pending"
                  /\ tries[k] < MaxQueueAttempts /\ tries'[k] = tries[k]
             \/ phase[k] = "processing" /\ phase'[k] \in Settled /\ tries'[k] = tries[k]
  BY <1>0, <1>4 DEF Reap, TypeOK, Settled
<1>5. ASSUME NEW u \in Users, DeleteUser(u)
      PROVE  tries'[k] = tries[k] /\ (phase'[k] = phase[k] \/ Gone(home[k])')
  <2>1. home' = home /\ tries' = tries  BY <1>5 DEF DeleteUser, uploadVars
  <2>2. CASE k \in images /\ session[home[k]].owner = u
    <3>1. home[k] \in SessionIds /\ session[home[k]] \in SessionRows
      BY <1>0, <2>2, RowFacts DEF NothingDangles, Alive, TypeOK
    <3>2. session'[home[k]] = [session[home[k]] EXCEPT !.status = "gone"]
      BY <1>5, <2>2, <3>1 DEF DeleteUser
    <3>3. session'[home[k]].status = "gone"  BY <3>1, <3>2 DEF SessionRows
    <3> QED BY <2>1, <3>1, <3>3 DEF Gone
  <2>3. CASE ~(k \in images /\ session[home[k]].owner = u)
    BY <1>5, <2>1, <2>3 DEF DeleteUser
  <2> QED BY <2>2, <2>3
<1>6. CASE \/ Tick
           \/ \E u \in Users, s \in SessionIds, d \in Durations, b \in Buffers :
                Create(u, s, d, b)
           \/ \E s \in SessionIds : Close(s)
           \/ \E i \in Images, s \in SessionIds : UploadAdmitted(i, s)
           \/ \E i \in Images : \/ UploadRejected(i) \/ StoreImage(i) \/ StoreImageErrs(i)
                               \/ RunLoads(i) \/ RunLinks(i) \/ RunVanishes(i)
           \/ \E l \in Lists, s \in SessionIds : ListAdmitted(l, s)
           \/ \E l \in Lists : ListStep(l)
           \/ UNCHANGED vars
  <2>1. UNCHANGED <<phase, tries>>
    BY <1>6
    DEF Tick, Create, Close, UploadAdmitted, UploadRejected, StoreImage,
        StoreImageErrs, RunLoads, RunLinks, RunVanishes, ListAdmitted, ListStep,
        ListReadsImages, ListReadFails, ListAnswers, ListDegrades, vars, jobVars
  <2> QED BY <2>1
<1> QED
  BY <1>1, <1>2, <1>3, <1>4, <1>5, <1>6 DEF Next, UploadStep, JobStep

\* The job of an image lives as the queue promises while its session is there;
\* when the session goes it is withdrawn, and nothing touches it any more.
THEOREM SessionsImplementLifecycle == Spec => ImplementsLifecycle
<1>1. Init => Lifecycle!Init
  BY SessionsAssumption DEF Init, Lifecycle!Init, lifePhase, Gone
<1>2. SessionsInv => lifePhase \in [Images -> Lifecycle!Phases] /\ tries \in [Images -> 0..MaxQueueAttempts]
  BY DEF SessionsInv, TypeOK, lifePhase, Phases, Settled, Lifecycle!Phases, Lifecycle!Settled
<1>3. SessionsInv /\ SessionsInv' /\ [Next]_vars
      => [Lifecycle!Next]_(Lifecycle!vars)
  <2> SUFFICES ASSUME SessionsInv, SessionsInv', [Next]_vars
               PROVE  Lifecycle!Next
    OBVIOUS
  <2>1. Lifecycle!LifecycleTypeOK'
    BY <1>2, PTL DEF Lifecycle!LifecycleTypeOK
  <2>2. ASSUME NEW k \in Images
        PROVE  \/ Lifecycle!Stays(k) \/ Lifecycle!Submitted(k) \/ Lifecycle!Started(k)
               \/ Lifecycle!Returned(k) \/ Lifecycle!Ended(k) \/ Lifecycle!Withdrawn(k)
    <3>1. /\ lifePhase[k] = IF Gone(home[k]) THEN "withdrawn" ELSE phase[k]
          /\ lifePhase'[k] = IF Gone(home[k])' THEN "withdrawn" ELSE phase'[k]
      BY DEF lifePhase
    <3>2. tries[k] = tries'[k] /\ Gone(home[k])' => Lifecycle!Withdrawn(k)
      BY <3>1 DEF Lifecycle!Withdrawn
    <3>3. CASE Gone(home[k])
      <4>1. Gone(home[k])' /\ k \notin images /\ phase[k] = "absent"
        BY <3>3, GoneFacts
      <4>2. tries'[k] = tries[k]  BY <4>1, JobMoves DEF Settled
      <4> QED BY <3>2, <4>1, <4>2
    <3>4. CASE ~Gone(home[k]) /\ Gone(home[k])'
      <4>1. \E u \in Users : DeleteUser(u)  BY <3>4, GoneFacts
      <4>2. tries'[k] = tries[k]  BY <4>1 DEF DeleteUser
      <4> QED BY <3>2, <3>4, <4>2
    <3>5. CASE ~Gone(home[k]) /\ ~Gone(home[k])'
      <4>1. lifePhase[k] = phase[k] /\ lifePhase'[k] = phase'[k]  BY <3>1, <3>5
      <4> QED
        BY <3>5, <4>1, JobMoves
        DEF Lifecycle!Stays, Lifecycle!Submitted, Lifecycle!Started,
            Lifecycle!Returned, Lifecycle!Ended, Lifecycle!Settled, Settled
    <3> QED BY <3>3, <3>4, <3>5
  <2> QED BY <2>1, <2>2 DEF Lifecycle!Next
<1> QED
  BY <1>1, <1>3, SessionsInvCorrect, PTL DEF Spec, ImplementsLifecycle, Lifecycle!Spec
=============================================================================
