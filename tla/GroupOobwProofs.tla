-------------------------- MODULE GroupOobwProofs --------------------------
(***************************************************************************)
(* Out-of-band work: a process that does it, or waits to do it, is tracked *)
(* by exactly one callback, thread or disable command, serves nobody while *)
(* it works, and never are more of them out of rotation than is allowed.   *)
(***************************************************************************)
EXTENDS GroupProofs, FiniteSetTheorems

\* The disable commands that out-of-band work waits for.
OobwWaits(dw) == {w \in dw : w[2] = "oobw"}

\* What is under way for out-of-band work: callbacks, threads and disable commands.
Tracks(cb, th, dw) == cb \cup th \cup OobwWaits(dw)

\* Something is under way for process p; and nothing twice for any process.
IsUnderWay(p, A) == \E x \in A : x[1] = p
OnlyOnce(A) == \A x, y \in A : x[1] = y[1] => x = y

\* The types of what is under way.
IsTracks(cb, th, dw) ==
  /\ cb \subseteq Process \X DisableResults
  /\ th \subseteq Process \X {"starting", "working"}
  /\ dw \subseteq Process \X Waiter

\* A process of the group is marked as busy with the work exactly while something is
\* under way for it.
StatusMatches(en, status, A) ==
  \A p \in Process : en[p] # "DETACHED" => (status[p] = "IN_PROGRESS" <=> IsUnderWay(p, A))

\* A process with a thread is out of rotation and serves no session.
ThreadsAlone(en, th, ses) ==
  \A t \in th : en[t[1]] \in {"DISABLED", "DETACHED"} /\ \A r \in Request : ses[r] # t[1]

\* The processes of the group with a thread or a disable command for the work.
Taken(en, th, dw) ==
  {p \in Process : en[p] # "DETACHED" /\ IsUnderWay(p, th \cup OobwWaits(dw))}

\* They are no more than max_out_of_band_work_instances.
FewTaken(en, th, dw) == Cardinality(Taken(en, th, dw)) <= MaxOobw

\* OobwTrackedOnce is not inductive: that a thread is not lost when it starts depends on
\* the list its process is on.
Tracked(cb, en, status, th, dw, ses) ==
  /\ IsTracks(cb, th, dw) /\ OnlyOnce(Tracks(cb, th, dw))
  /\ StatusMatches(en, status, Tracks(cb, th, dw))
  /\ ThreadsAlone(en, th, ses) /\ FewTaken(en, th, dw)

\* The inductive invariant.
OobwInv == Tracked(callbacks, enabled, oobwStatus, oobwThreads, disableWaitlist, session)

\* Callbacks, threads and disable commands are told apart.
LEMMA TracksDiffer ==
  ASSUME NEW cb, NEW th, NEW dw, IsTracks(cb, th, dw)
  PROVE  /\ \A w \in OobwWaits(dw) : w \notin cb /\ w \notin th
         /\ \A x \in th : x \notin cb
BY Zenon DEF IsTracks, OobwWaits, DisableResults

\* A disable command that is answered becomes a callback.
LEMMA AnsweredTracks ==
  ASSUME NEW cb, NEW th, NEW dw, IsTracks(cb, th, dw), NEW W \in SUBSET dw, NEW result,
         OnlyOnce(Tracks(cb, th, dw))
  PROVE  LET B == Tracks(cb \cup OobwCallbacks(W, result), th, dw \ W)
         IN OnlyOnce(B) /\ \A p : IsUnderWay(p, B) <=> IsUnderWay(p, Tracks(cb, th, dw))
<1> DEFINE A == Tracks(cb, th, dw)
           B == Tracks(cb \cup OobwCallbacks(W, result), th, dw \ W)
<1>1. \A x \in B : \/ x \in A /\ x \notin OobwWaits(W)
                   \/ \E w \in OobwWaits(W) : x = <<w[1], result>>
  <2>1. OobwWaits(dw \ W) = OobwWaits(dw) \ OobwWaits(W)
    BY Zenon DEF OobwWaits
  <2>2. \A w \in OobwWaits(W) : w \notin cb /\ w \notin th
    BY TracksDiffer, Zenon DEF OobwWaits
  <2>3. OobwCallbacks(W, result) = {<<w[1], result>> : w \in OobwWaits(W)}
    BY Zenon DEF OobwCallbacks, OobwWaits
  <2> QED BY <2>1, <2>2, <2>3, Zenon DEF Tracks
<1>2. OobwWaits(W) \subseteq A
  BY Zenon DEF OobwWaits, Tracks
<1>3. \A w \in OobwWaits(W) : <<w[1], result>> \in B
  BY Zenon DEF OobwWaits, Tracks, OobwCallbacks
<1>4. \A x \in A : x \in B \/ x \in OobwWaits(W)
  BY Zenon DEF OobwWaits, Tracks
<1> HIDE DEF A, B
<1>5. OnlyOnce(B)
  <2> SUFFICES ASSUME NEW x \in B, NEW y \in B, x[1] = y[1] PROVE x = y
    BY Zenon DEF OnlyOnce
  <2>1. CASE x \in A /\ x \notin OobwWaits(W) /\ y \in A /\ y \notin OobwWaits(W)
    BY <2>1, Zenon DEF OnlyOnce, A
  <2>2. ASSUME NEW w \in OobwWaits(W), x = <<w[1], result>>, y \in A, y \notin OobwWaits(W)
        PROVE  FALSE
    BY <1>2, <2>2, Zenon DEF OnlyOnce, A
  <2>3. ASSUME NEW w \in OobwWaits(W), y = <<w[1], result>>, x \in A, x \notin OobwWaits(W)
        PROVE  FALSE
    BY <1>2, <2>3, Zenon DEF OnlyOnce, A
  <2>4. ASSUME NEW v \in OobwWaits(W), NEW w \in OobwWaits(W), x = <<v[1], result>>,
               y = <<w[1], result>>
        PROVE  x = y
    BY <2>4, Zenon
  <2> QED BY <1>1, <2>1, <2>2, <2>3, <2>4, Zenon
<1>6. ASSUME NEW p, IsUnderWay(p, B) PROVE IsUnderWay(p, A)
  <2>1. PICK x \in B : x[1] = p
    BY <1>6, Zenon DEF IsUnderWay
  <2>2. ASSUME NEW w \in OobwWaits(W), x = <<w[1], result>> PROVE IsUnderWay(p, A)
    BY <1>2, <2>1, <2>2, Zenon DEF IsUnderWay
  <2> QED BY <1>1, <2>1, <2>2, Zenon DEF IsUnderWay
<1>7. ASSUME NEW p, IsUnderWay(p, A) PROVE IsUnderWay(p, B)
  <2>1. PICK x \in A : x[1] = p
    BY <1>7 DEF IsUnderWay
  <2>2. CASE x \in OobwWaits(W)
    <3>1. <<x[1], result>> \in B /\ <<x[1], result>>[1] = p
      BY <1>3, <2>1, <2>2, Zenon
    <3> QED BY <3>1, Zenon DEF IsUnderWay
  <2> QED BY <1>4, <2>1, <2>2, Zenon DEF IsUnderWay
<1> QED BY <1>5, <1>6, <1>7, Zenon DEF A, B

\* What Group::initiateOobw does: a thread is started, or the work waits for the process
\* to be disabled, or it is given up.
LEMMA InitiateOobwCases ==
  ASSUME NEW p \in Process, NEW en, NEW status \in [Process -> OobwStatus], NEW ses, NEW dw,
         NEW th, IsLists(en, dw), Live(en, ses), en[p] # "DETACHED",
         InitiateOobw(p, en, status, ses, dw, th)
  PROVE  /\ \A q \in Process \ {p} : enabled'[q] = en[q] /\ oobwStatus'[q] = status[q]
         /\ \/ /\ enabled'[p] = "DISABLED" /\ oobwStatus'[p] = "IN_PROGRESS"
               /\ disableWaitlist' = dw /\ oobwThreads' = th \cup {<<p, "starting">>}
               /\ \A r \in Request : ses[r] # p
            \/ /\ enabled'[p] = "DISABLING" /\ oobwStatus'[p] = "IN_PROGRESS"
               /\ disableWaitlist' = dw \cup {<<p, "oobw">>} /\ oobwThreads' = th
            \/ /\ enabled'[p] = en[p] /\ oobwStatus'[p] = "NOT_ACTIVE"
               /\ disableWaitlist' = dw /\ oobwThreads' = th
<1> DEFINE res == DisableResult(p, en, ses)
<1>1. /\ enabled' = [en EXCEPT ![p] = IF res = "DEFERRED" THEN "DISABLING"
                                      ELSE IF res = "SUCCESS" THEN "DISABLED" ELSE @]
      /\ disableWaitlist' = IF res = "DEFERRED" THEN dw \cup {<<p, "oobw">>} ELSE dw
  BY Zenon DEF InitiateOobw, Disable
<1> DEFINE result == IF en[p] = "DISABLED" THEN "SUCCESS" ELSE res
<1>2. /\ oobwStatus' = [status EXCEPT ![p] =
                          IF result = "ERROR" THEN "NOT_ACTIVE" ELSE "IN_PROGRESS"]
      /\ oobwThreads' = IF result = "SUCCESS" THEN th \cup {<<p, "starting">>} ELSE th
  BY Zenon DEF InitiateOobw
<1>3. \/ en[p] = "DISABLED" /\ res = "NOOP"
      \/ en[p] \in {"ENABLED", "DISABLING"} /\ res \in {"DEFERRED", "ERROR"}
      \/ en[p] = "ENABLED" /\ res = "SUCCESS" /\ Sessions(p, ses) = {}
  BY SMTT(30) DEF DisableResult, IsLists, EnabledStatus
<1>4. Sessions(p, ses) = {} => \A r \in Request : ses[r] # p
  BY Zenon DEF Sessions
<1>5. en[p] = "DISABLED" => \A r \in Request : ses[r] # p
  BY GroupAssumption, Zenon DEF Live
<1> HIDE DEF res
<1>6. \A q \in Process \ {p} : enabled'[q] = en[q] /\ oobwStatus'[q] = status[q]
  BY <1>1, <1>2, Zenon DEF IsLists
<1>7. /\ enabled'[p] = IF res = "DEFERRED" THEN "DISABLING"
                       ELSE IF res = "SUCCESS" THEN "DISABLED" ELSE en[p]
      /\ oobwStatus'[p] = IF result = "ERROR" THEN "NOT_ACTIVE" ELSE "IN_PROGRESS"
  BY <1>1, <1>2, Zenon DEF IsLists
<1> QED BY <1>1, <1>2, <1>3, <1>4, <1>5, <1>6, <1>7, Zenon

\* Sets of processes can be counted.
LEMMA CountProcesses ==
  ASSUME NEW S \in SUBSET Process, NEW T \in SUBSET S
  PROVE  /\ IsFiniteSet(S) /\ IsFiniteSet(T)
         /\ Cardinality(S) \in Nat /\ Cardinality(T) \in Nat
         /\ Cardinality(T) <= Cardinality(S)
<1>1. IsFiniteSet(S)
  BY FS_Subset, GroupAssumption, Zenon
<1>2. IsFiniteSet(T) /\ Cardinality(T) <= Cardinality(S)
  BY <1>1, FS_Subset, Zenon
<1> QED BY <1>1, <1>2, FS_CardinalityType, Zenon

\* Nothing is taken out that was not.
LEMMA FewerTaken ==
  ASSUME NEW en, NEW th, NEW dw, NEW en2, NEW th2, NEW dw2, FewTaken(en, th, dw),
         Taken(en2, th2, dw2) \subseteq Taken(en, th, dw)
  PROVE  FewTaken(en2, th2, dw2)
<1> DEFINE S == Taken(en, th, dw)
           T == Taken(en2, th2, dw2)
<1>1. S \in SUBSET Process /\ T \in SUBSET S
  BY Zenon DEF Taken
<1> HIDE DEF S, T
<1>2. Cardinality(S) \in Nat /\ Cardinality(T) \in Nat /\ Cardinality(T) <= Cardinality(S)
  BY <1>1, CountProcesses
<1>3. Cardinality(S) <= MaxOobw /\ MaxOobw \in Nat
  BY GroupAssumption, Zenon DEF FewTaken, S
<1>4. Cardinality(T) <= MaxOobw
  BY <1>2, <1>3, SMTT(30)
<1> QED BY <1>4, Zenon DEF FewTaken, T

\* initiateOobw() takes out one more process, which oobwAllowed() permits: it counts at
\* least the processes that are taken out.
LEMMA InitiateOobwTaken ==
  ASSUME NEW p \in Process, NEW cb, NEW en, NEW status \in [Process -> OobwStatus], NEW ses,
         NEW dw, NEW th, IsLists(en, dw), Matches(en, dw), Live(en, ses), en[p] # "DETACHED",
         IsTracks(cb, th, dw), ~IsUnderWay(p, Tracks(cb, th, dw)),
         \A q \in Process \ {p} : en[q] # "DETACHED" =>
           (status[q] = "IN_PROGRESS" <=> IsUnderWay(q, Tracks(cb, th, dw))),
         ThreadsAlone(en, th, ses), OobwAllowed(en, status),
         InitiateOobw(p, en, status, ses, dw, th)
  PROVE  FewTaken(enabled', oobwThreads', disableWaitlist')
<1> DEFINE S == OobwInstances(en, status)
           T == Taken(en, th, dw)
           U == Taken(enabled', oobwThreads', disableWaitlist')
<1>1. T \in SUBSET S
  <2> SUFFICES ASSUME NEW q \in T PROVE q \in S
    BY Zenon
  <2>1. /\ q \in Process /\ en[q] # "DETACHED"
        /\ IsUnderWay(q, th \cup OobwWaits(dw))
    BY Zenon DEF Taken
  <2>2. IsUnderWay(q, Tracks(cb, th, dw))
    BY <2>1, Zenon DEF IsUnderWay, Tracks
  <2>3. status[q] = "IN_PROGRESS"
    BY <2>1, <2>2, Zenon
  <2>4. en[q] \in {"DISABLING", "DISABLED"}
    <3>1. ASSUME NEW x \in th, x[1] = q PROVE en[q] = "DISABLED"
      BY <2>1, <3>1, Zenon DEF ThreadsAlone
    <3>2. ASSUME NEW x \in OobwWaits(dw), x[1] = q PROVE en[q] = "DISABLING"
      BY <3>2, Zenon DEF OobwWaits, Matches, Disabling, Status
    <3> QED BY <2>1, <3>1, <3>2, Zenon DEF IsUnderWay
  <2> QED BY <2>1, <2>3, <2>4, Zenon DEF OobwInstances
<1>2. U \in SUBSET (T \cup {p})
  <2>1. /\ \A q \in Process \ {p} : enabled'[q] = en[q]
        /\ disableWaitlist' = dw \/ disableWaitlist' = dw \cup {<<p, "oobw">>}
        /\ oobwThreads' = th \/ oobwThreads' = th \cup {<<p, "starting">>}
    BY InitiateOobwCases
  <2>2. \A q : IsUnderWay(q, oobwThreads' \cup OobwWaits(disableWaitlist')) =>
          q = p \/ IsUnderWay(q, th \cup OobwWaits(dw))
    BY <2>1 DEF IsUnderWay, OobwWaits
  <2> QED BY <2>1, <2>2, Zenon DEF Taken
<1>3. S \in SUBSET Process /\ Cardinality(S) < MaxOobw /\ MaxOobw \in Nat
  BY GroupAssumption DEF OobwAllowed, OobwInstances
<1>4. p \notin T
  BY DEF Taken, IsUnderWay, Tracks
<1> HIDE DEF S, T, U
<1>5. /\ IsFiniteSet(T) /\ Cardinality(S) \in Nat /\ Cardinality(T) \in Nat
      /\ Cardinality(T) <= Cardinality(S)
  BY <1>1, <1>3, CountProcesses
<1>6. Cardinality(T \cup {p}) = Cardinality(T) + 1
  BY <1>4, <1>5, FS_AddElement
<1>7. T \cup {p} \in SUBSET Process
  BY <1>1, <1>3, Zenon
<1>8. Cardinality(U) \in Nat /\ Cardinality(U) <= Cardinality(T \cup {p})
  BY <1>2, <1>7, CountProcesses, Zenon
<1>9. Cardinality(U) <= MaxOobw
  <2> DEFINE s == Cardinality(S)
             t == Cardinality(T)
             u == Cardinality(U)
  <2> SUFFICES u <= MaxOobw
    BY Zenon
  <2>1. s \in Nat /\ t \in Nat /\ u \in Nat /\ t <= s /\ s < MaxOobw /\ u <= t + 1
    BY <1>3, <1>5, <1>6, <1>8, Zenon
  <2> HIDE DEF s, t, u
  <2> QED BY <1>3, <2>1, SMTT(30)
<1> QED BY <1>9, Zenon DEF FewTaken, U

\* One more track, of a process that had none.
LEMMA AddedTrack ==
  ASSUME NEW A, NEW p, NEW x, x[1] = p, OnlyOnce(A), ~IsUnderWay(p, A)
  PROVE  /\ OnlyOnce(A \cup {x})
         /\ \A q : IsUnderWay(q, A \cup {x}) <=> IsUnderWay(q, A) \/ q = p
BY DEF OnlyOnce, IsUnderWay

\* initiateOobw() on a process for which nothing is under way.  Its status is about to
\* be changed, so that of the other processes is what has to match.
LEMMA InitiateOobwTracked ==
  ASSUME NEW p \in Process, NEW cb, NEW en, NEW status \in [Process -> OobwStatus], NEW ses,
         NEW dw, NEW th, IsLists(en, dw), Matches(en, dw), Live(en, ses),
         en[p] # "DETACHED",
         IsTracks(cb, th, dw), OnlyOnce(Tracks(cb, th, dw)),
         ~IsUnderWay(p, Tracks(cb, th, dw)),
         \A q \in Process \ {p} : en[q] # "DETACHED" =>
           (status[q] = "IN_PROGRESS" <=> IsUnderWay(q, Tracks(cb, th, dw))),
         ThreadsAlone(en, th, ses), OobwAllowed(en, status),
         InitiateOobw(p, en, status, ses, dw, th)
  PROVE  Tracked(cb, enabled', oobwStatus', oobwThreads', disableWaitlist', ses)
<1> DEFINE A == Tracks(cb, th, dw)
           B == Tracks(cb, oobwThreads', disableWaitlist')
<1>1. /\ \A q \in Process \ {p} : enabled'[q] = en[q] /\ oobwStatus'[q] = status[q]
      /\ \/ /\ enabled'[p] = "DISABLED" /\ oobwStatus'[p] = "IN_PROGRESS"
            /\ disableWaitlist' = dw /\ oobwThreads' = th \cup {<<p, "starting">>}
            /\ \A r \in Request : ses[r] # p
         \/ /\ enabled'[p] = "DISABLING" /\ oobwStatus'[p] = "IN_PROGRESS"
            /\ disableWaitlist' = dw \cup {<<p, "oobw">>} /\ oobwThreads' = th
         \/ /\ enabled'[p] = en[p] /\ oobwStatus'[p] = "NOT_ACTIVE"
            /\ disableWaitlist' = dw /\ oobwThreads' = th
  BY InitiateOobwCases, SMTT(30)
<1>2. \A t \in th : t[1] \in Process /\ t[1] # p
  BY Zenon DEF IsTracks, IsUnderWay, Tracks
<1>3. IsTracks(cb, oobwThreads', disableWaitlist')
  BY <1>1, SMTT(30) DEF IsTracks, Waiter
<1>4. FewTaken(enabled', oobwThreads', disableWaitlist')
  BY InitiateOobwTaken, Zenon
<1>5. CASE /\ enabled'[p] = "DISABLED" /\ oobwStatus'[p] = "IN_PROGRESS"
           /\ disableWaitlist' = dw /\ oobwThreads' = th \cup {<<p, "starting">>}
           /\ \A r \in Request : ses[r] # p
  <2>1. B = A \cup {<<p, "starting">>} /\ <<p, "starting">>[1] = p
    BY <1>5, Zenon DEF Tracks
  <2> HIDE DEF A, B
  <2>2. OnlyOnce(B) /\ \A q : IsUnderWay(q, B) <=> IsUnderWay(q, A) \/ q = p
    BY <2>1, AddedTrack, Zenon DEF A
  <2>3. StatusMatches(enabled', oobwStatus', B)
    BY <1>1, <1>5, <2>2 DEF StatusMatches, A
  <2>4. ThreadsAlone(enabled', oobwThreads', ses)
    BY <1>1, <1>2, <1>5 DEF ThreadsAlone
  <2> QED BY <1>3, <1>4, <2>2, <2>3, <2>4, Zenon DEF Tracked, B
<1>6. CASE /\ enabled'[p] = "DISABLING" /\ oobwStatus'[p] = "IN_PROGRESS"
           /\ disableWaitlist' = dw \cup {<<p, "oobw">>} /\ oobwThreads' = th
  <2>1. B = A \cup {<<p, "oobw">>} /\ <<p, "oobw">>[1] = p
    BY <1>6 DEF Tracks, OobwWaits
  <2> HIDE DEF A, B
  <2>2. OnlyOnce(B) /\ \A q : IsUnderWay(q, B) <=> IsUnderWay(q, A) \/ q = p
    BY <2>1, AddedTrack, Zenon DEF A
  <2>3. StatusMatches(enabled', oobwStatus', B)
    BY <1>1, <1>6, <2>2, SMTT(30) DEF StatusMatches, A
  <2>4. ThreadsAlone(enabled', oobwThreads', ses)
    BY <1>1, <1>2, <1>6 DEF ThreadsAlone
  <2> QED BY <1>3, <1>4, <2>2, <2>3, <2>4, SMTT(30) DEF Tracked, B
<1>7. CASE /\ enabled'[p] = en[p] /\ oobwStatus'[p] = "NOT_ACTIVE"
           /\ disableWaitlist' = dw /\ oobwThreads' = th
  <2>1. B = A
    BY <1>7
  <2> HIDE DEF A, B
  <2>2. StatusMatches(enabled', oobwStatus', B)
    BY <1>1, <1>7, <2>1 DEF StatusMatches, A
  <2>3. ThreadsAlone(enabled', oobwThreads', ses)
    BY <1>1, <1>2, <1>7 DEF ThreadsAlone
  <2> QED BY <1>3, <1>4, <2>1, <2>2, <2>3, SMTT(30) DEF Tracked, A, B
<1> QED BY <1>1, <1>5, <1>6, <1>7, Zenon

\* maybeInitiateOobw() starts work only for a process whose status says it was asked
\* for, so nothing is under way for it.
LEMMA MaybeInitiateOobwTracked ==
  ASSUME NEW p \in Process, NEW cb, NEW en, NEW ses, NEW dw, IsLists(en, dw),
         Matches(en, dw), Live(en, ses),
         oobwStatus \in [Process -> OobwStatus],
         Tracked(cb, en, oobwStatus, oobwThreads, dw, ses),
         MaybeInitiateOobw(p, en, ses, dw)
  PROVE  Tracked(cb, enabled', oobwStatus', oobwThreads', disableWaitlist', ses)
<1>1. CASE ShouldInitiateOobw(p, en, oobwStatus)
  <2>1. /\ en[p] # "DETACHED" /\ oobwStatus[p] # "IN_PROGRESS"
        /\ OobwAllowed(en, oobwStatus)
    BY <1>1, Zenon DEF ShouldInitiateOobw
  <2>2. ~IsUnderWay(p, Tracks(cb, oobwThreads, dw))
    BY <2>1, Zenon DEF Tracked, StatusMatches
  <2>3. InitiateOobw(p, en, oobwStatus, ses, dw, oobwThreads)
    BY <1>1, Zenon DEF MaybeInitiateOobw
  <2> QED BY <2>1, <2>2, <2>3, InitiateOobwTracked, Zenon DEF Tracked, StatusMatches
<1>2. CASE ~ShouldInitiateOobw(p, en, oobwStatus)
  BY <1>2, Zenon DEF MaybeInitiateOobw, oobwVars
<1> QED BY <1>1, <1>2, Zenon

\* The waiting requests get no session with a process that does out-of-band work.
LEMMA AssignTracked ==
  ASSUME NEW cb, NEW en, NEW status, NEW th, NEW dw, NEW ses,
         getWaitlist \subseteq Request,
         Tracked(cb, en, status, th, dw, ses), AssignSessionsToGetWaiters(en, ses)
  PROVE  Tracked(cb, en, status, th, dw, session')
<1>1. PICK f \in [getWaitlist -> Enabled(en) \cup Disabling(en) \cup {NoProcess}] :
        session' = Assigned(f, getWaitlist, ses)
  BY Zenon DEF AssignSessionsToGetWaiters
<1>2. ASSUME NEW r \in getWaitlist, f[r] # NoProcess
      PROVE  en[f[r]] \in {"ENABLED", "DISABLING"}
  BY <1>2, Zenon DEF Enabled, Disabling, Status
<1>3. \A r \in Request : session'[r] = ses[r] \/ en[session'[r]] \in {"ENABLED", "DISABLING"}
  BY <1>1, <1>2, Zenon DEF Assigned
<1>4. ThreadsAlone(en, th, session')
  BY <1>3, ZenonT(30) DEF Tracked, ThreadsAlone
<1> QED BY <1>4, Zenon DEF Tracked

\* Answering disable commands, when the processes with threads stay out of rotation.
LEMMA AnsweredTracked ==
  ASSUME NEW en \in [Process -> EnabledStatus], NEW ses, NEW W \in SUBSET disableWaitlist,
         NEW result \in DisableResults, OobwInv,
         \A q \in Process : en[q] # "DETACHED" => enabled[q] # "DETACHED",
         ThreadsAlone(en, oobwThreads, ses)
  PROVE  Tracked(callbacks \cup OobwCallbacks(W, result), en, oobwStatus, oobwThreads,
                 disableWaitlist \ W, ses)
<1> DEFINE A == Tracks(callbacks, oobwThreads, disableWaitlist)
           cb == callbacks \cup OobwCallbacks(W, result)
           dw == disableWaitlist \ W
           B == Tracks(cb, oobwThreads, dw)
<1>1. OnlyOnce(B) /\ \A p : IsUnderWay(p, B) <=> IsUnderWay(p, A)
  BY AnsweredTracks, Zenon DEF OobwInv, Tracked
<1>2. IsTracks(cb, oobwThreads, dw)
  BY SMTT(30) DEF OobwInv, Tracked, IsTracks, OobwCallbacks
<1> HIDE DEF A, B, cb, dw
<1>3. StatusMatches(en, oobwStatus, B)
  BY <1>1, Zenon DEF OobwInv, Tracked, StatusMatches, A
<1>4. FewTaken(en, oobwThreads, dw)
  <2>1. OobwWaits(dw) \subseteq OobwWaits(disableWaitlist)
    BY Zenon DEF OobwWaits, dw
  <2>2. FewTaken(enabled, oobwThreads, disableWaitlist)
    BY Zenon DEF OobwInv, Tracked
  <2>3. Taken(en, oobwThreads, dw) \subseteq Taken(enabled, oobwThreads, disableWaitlist)
    BY <2>1, Zenon DEF Taken, IsUnderWay
  <2> QED BY <2>2, <2>3, FewerTaken, Zenon
<1> QED BY <1>1, <1>2, <1>3, <1>4, Zenon DEF Tracked, B, cb, dw

-----------------------------------------------------------------------------
(* The steps keep the out-of-band work tracked.                             *)

\* The invariant, spelled out for the state after a step.
LEMMA KeepsOobwInv ==
  ASSUME Tracked(callbacks', enabled', oobwStatus', oobwThreads', disableWaitlist', session')
  PROVE  OobwInv'
BY Zenon DEF OobwInv, Tracked, IsTracks, OnlyOnce, Tracks, OobwWaits, StatusMatches, IsUnderWay,
       ThreadsAlone, FewTaken, Taken

\* Group::detach, when no session is added.
LEMMA DetachTracked ==
  ASSUME ProcessTypes, OobwInv, NEW S, Detach(S), NEW ses,
         \A r \in Request : ses[r] \in {session[r], NoProcess}
  PROVE  Tracked(callbacks', enabled', oobwStatus, oobwThreads, disableWaitlist', ses)
<1> DEFINE W == WaitersFor(S \cap Disabling(enabled))
<1>1. /\ enabled' = [p \in Process |-> IF p \in S THEN "DETACHED" ELSE enabled[p]]
      /\ disableWaitlist' = disableWaitlist \ W
      /\ callbacks' = callbacks \cup OobwCallbacks(W, "NOOP")
  BY Zenon DEF Detach
<1>2. W \in SUBSET disableWaitlist /\ "NOOP" \in DisableResults
  BY Zenon DEF WaitersFor, DisableResults
<1>3. enabled' \in [Process -> EnabledStatus]
  BY <1>1, Zenon DEF ProcessTypes, ListTypes, IsLists, EnabledStatus
<1>4. \A q \in Process : enabled'[q] = "DETACHED" \/ enabled'[q] = enabled[q]
  BY <1>1, Zenon
<1>5. \A t \in oobwThreads : t[1] \in Process
  BY Zenon DEF OobwInv, Tracked, IsTracks
<1> HIDE DEF W
<1>6. ThreadsAlone(enabled', oobwThreads, ses)
  BY <1>4, <1>5, GroupAssumption, Zenon DEF OobwInv, Tracked, ThreadsAlone
<1> QED BY <1>1, <1>2, <1>3, <1>4, <1>6, AnsweredTracked, Zenon

\* Group::detachAll.
LEMMA DetachAllTracked ==
  ASSUME OobwInv, DetachAll
  PROVE  Tracked(callbacks', enabled', oobwStatus, oobwThreads, disableWaitlist', session)
<1>1. /\ enabled' = [p \in Process |-> "DETACHED"]
      /\ disableWaitlist' = disableWaitlist \ disableWaitlist
      /\ callbacks' = callbacks \cup OobwCallbacks(disableWaitlist, "NOOP")
  BY DEF DetachAll
<1>2. enabled' \in [Process -> EnabledStatus] /\ \A q \in Process : enabled'[q] = "DETACHED"
  BY <1>1 DEF EnabledStatus
<1>3. ThreadsAlone(enabled', oobwThreads, session)
  BY <1>2 DEF OobwInv, Tracked, ThreadsAlone, IsTracks
<1> QED BY <1>1, <1>2, <1>3, AnsweredTracked, Zenon DEF DisableResults

\* A request is not routed to a process that does out-of-band work.
LEMMA GetSessionTracked ==
  ASSUME NEW cb, NEW en, NEW dw, NEW r \in Request, NEW s, NEW rst,
         session \in [Request -> Target],
         Tracked(cb, en, oobwStatus, oobwThreads, dw, session), GetSession(r, s, en, rst)
  PROVE  Tracked(cb, en, oobwStatus, oobwThreads, dw, session')
<1> DEFINE targets == IF Enabled(en) = {} /\ rst THEN {} ELSE Route(s, en, session)
<1>1. \A p \in targets : en[p] \in {"ENABLED", "DISABLING"}
  BY Zenon DEF Route, LeastBusy, Enabled, Disabling, Status
<1>2. CASE targets # {}
  <2>1. PICK p \in targets : session' = [session EXCEPT ![r] = p]
    BY <1>2, Zenon DEF GetSession
  <2> HIDE DEF targets
  <2>2. ThreadsAlone(en, oobwThreads, session')
    BY <1>1, <2>1, Zenon DEF Tracked, ThreadsAlone
  <2> QED BY <2>2, Zenon DEF Tracked
<1>3. CASE targets = {}
  BY <1>3, Zenon DEF GetSession
<1> QED BY <1>2, <1>3, Zenon

\* onSessionClose(): the process whose last session ended may be disabled, which answers
\* the disable commands for it, and out-of-band work may start.
LEMMA OnSessionCloseTracked ==
  ASSUME ProcessTypes, ListInv, OobwInv, NEW r \in Request, NEW needed \in BOOLEAN,
         OnSessionClose(r, needed)
  PROVE  OobwInv'
<1> USE DEF ProcessTypes
<1> DEFINE p == session[r]
           ses == [session EXCEPT ![r] = NoProcess]
<1>1. p \in Process
  BY Zenon DEF OnSessionClose, ListInv, Live
<1>2. \A q \in Request : ses[q] \in {session[q], NoProcess}
  BY Zenon DEF WaitTypes
<1>3. Live(enabled, ses)
  BY <1>2, Zenon DEF ListInv, Live
<1>4. oobwStatus \in [Process -> OobwStatus]
  BY Zenon DEF OobwTypes
<1>5. \A t \in oobwThreads : t[1] \in Process
  BY Zenon DEF OobwInv, Tracked, IsTracks
<1>6. ThreadsAlone(enabled, oobwThreads, ses)
  <2> HIDE DEF ses
  <2> QED BY <1>2, <1>5, GroupAssumption, Zenon DEF OobwInv, Tracked, ThreadsAlone
<1>7. CASE DetachProcessUnlocked(p, ses) /\ session' = ses /\ UNCHANGED oobwVars
  <2>1. Detach({p})
    BY <1>7, Zenon DEF DetachProcessUnlocked
  <2> HIDE DEF p, ses
  <2>2. Tracked(callbacks', enabled', oobwStatus, oobwThreads, disableWaitlist', ses)
    BY <1>2, <2>1, DetachTracked, Zenon
  <2> QED BY <1>7, <2>2, KeepsOobwInv, Zenon DEF oobwVars
<1>8. CASE /\ ShouldDisable(p, ses)
           /\ callbacks' = callbacks \cup OobwCallbacks(WaitersFor({p}), "SUCCESS")
           /\ MaybeInitiateOobw(p, [enabled EXCEPT ![p] = "DISABLED"], ses,
                                disableWaitlist \ WaitersFor({p}))
           /\ session' = ses
  <2> DEFINE en == [enabled EXCEPT ![p] = "DISABLED"]
             dw == disableWaitlist \ WaitersFor({p})
  <2>1. IsLists(en, dw)
    BY <1>1, Zenon DEF ListTypes, IsLists, EnabledStatus
  <2>2. Live(en, ses)
    BY <1>1, <1>3, <1>8, Zenon DEF Live, ShouldDisable, Sessions, ListTypes, IsLists
  <2>3. /\ \A q \in Process : en[q] = IF q = p THEN "DISABLED" ELSE enabled[q]
        /\ enabled[p] = "DISABLING"
    BY <1>1, <1>8, Zenon DEF ListTypes, IsLists, ShouldDisable
  <2>4. en \in [Process -> EnabledStatus]
    BY <2>1, Zenon DEF IsLists
  <2>5. WaitersFor({p}) \in SUBSET disableWaitlist /\ "SUCCESS" \in DisableResults
    BY Zenon DEF WaitersFor, DisableResults
  <2>6. Matches(en, dw)
    <3>1. Disabling(en) = Disabling(enabled) \ {p}
      BY <2>3, SMTT(30) DEF Disabling, Status
    <3>2. dw = {w \in disableWaitlist : w[1] # p}
      BY Zenon DEF WaitersFor
    <3> HIDE DEF en, dw
    <3> QED BY <3>1, <3>2, Zenon DEF ListInv, Matches
  <2> HIDE DEF p, ses, en
  <2>7. ThreadsAlone(en, oobwThreads, ses)
    BY <1>5, <1>6, <2>3, Zenon DEF ThreadsAlone
  <2>8. \A q \in Process : en[q] # "DETACHED" => enabled[q] # "DETACHED"
    BY <2>3, Zenon
  <2>9. Tracked(callbacks', en, oobwStatus, oobwThreads, dw, ses)
    BY <1>8, <2>4, <2>5, <2>7, <2>8, AnsweredTracked, Zenon
  <2> HIDE DEF dw
  <2>10. Tracked(callbacks', enabled', oobwStatus', oobwThreads', disableWaitlist', ses)
    BY <1>1, <1>4, <1>8, <2>1, <2>2, <2>6, <2>9, MaybeInitiateOobwTracked DEF en, dw
  <2> QED BY <1>8, <2>10, KeepsOobwInv, Zenon
<1>9. CASE /\ MaybeInitiateOobw(p, enabled, ses, disableWaitlist)
           /\ IF getWaitlist # {} /\ enabled'[p] = "ENABLED"
              THEN AssignSessionsToGetWaiters(enabled', ses)
              ELSE session' = ses /\ UNCHANGED waitVars
           /\ UNCHANGED callbacks
  <2>1. /\ IsLists(enabled, disableWaitlist) /\ Matches(enabled, disableWaitlist)
        /\ getWaitlist \subseteq Request
    BY DEF ListTypes, WaitTypes, ListInv
  <2>2. Tracked(callbacks, enabled, oobwStatus, oobwThreads, disableWaitlist, ses)
    BY <1>6, Zenon DEF OobwInv, Tracked
  <2> HIDE DEF p, ses
  <2>3. Tracked(callbacks, enabled', oobwStatus', oobwThreads', disableWaitlist', ses)
    BY <1>1, <1>3, <1>4, <1>9, <2>1, <2>2, MaybeInitiateOobwTracked, Zenon
  <2>4. Tracked(callbacks, enabled', oobwStatus', oobwThreads', disableWaitlist', session')
    BY <1>9, <2>1, <2>3, AssignTracked, Zenon
  <2> QED BY <1>9, <2>4, KeepsOobwInv
<1> QED BY <1>7, <1>8, <1>9, Zenon DEF OnSessionClose

\* The track of p ends, and with it the status of p, unless p was detached.
LEMMA EndedTracked ==
  ASSUME OobwInv, NEW p \in Process, NEW cb, NEW th, NEW en, NEW status, NEW x,
         x \in Tracks(callbacks, oobwThreads, disableWaitlist), x[1] = p,
         IsTracks(cb, th, disableWaitlist),
         Tracks(cb, th, disableWaitlist) = Tracks(callbacks, oobwThreads, disableWaitlist) \ {x},
         th \subseteq oobwThreads,
         \A q \in Process \ {p} : en[q] = enabled[q] /\ status[q] = oobwStatus[q],
         en[p] # "DETACHED" => status[p] # "IN_PROGRESS"
  PROVE  /\ Tracked(cb, en, status, th, disableWaitlist, session)
         /\ ~IsUnderWay(p, Tracks(cb, th, disableWaitlist))
<1> DEFINE A == Tracks(callbacks, oobwThreads, disableWaitlist)
           B == Tracks(cb, th, disableWaitlist)
<1>1. /\ OnlyOnce(A) /\ StatusMatches(enabled, oobwStatus, A)
      /\ \A t \in th : t[1] \in Process /\ t \in B
  BY Zenon DEF OobwInv, Tracked, IsTracks, Tracks
<1> HIDE DEF A, B
<1>2. B = A \ {x} /\ x \in A
  BY Zenon DEF A, B
<1>3. OnlyOnce(B)
  BY <1>1, <1>2, Zenon DEF OnlyOnce
<1>4. \A q : IsUnderWay(q, B) <=> IsUnderWay(q, A) /\ q # p
  BY <1>1, <1>2, SMTT(30) DEF OnlyOnce, IsUnderWay
<1>5. StatusMatches(en, status, B)
  BY <1>1, <1>4, Zenon DEF StatusMatches
<1>6. \A t \in th : t[1] # p
  BY <1>1, <1>4, Zenon DEF IsUnderWay
<1>7. ThreadsAlone(en, th, session)
  BY <1>1, <1>6, Zenon DEF OobwInv, Tracked, ThreadsAlone
<1>8. FewTaken(en, th, disableWaitlist)
  <2>1. FewTaken(enabled, oobwThreads, disableWaitlist)
    BY Zenon DEF OobwInv, Tracked
  <2>2. th \cup OobwWaits(disableWaitlist) \subseteq B
    BY Zenon DEF Tracks, B
  <2>3. ASSUME NEW q, IsUnderWay(q, th \cup OobwWaits(disableWaitlist))
        PROVE  IsUnderWay(q, oobwThreads \cup OobwWaits(disableWaitlist)) /\ q # p
    <3>1. PICK y \in th \cup OobwWaits(disableWaitlist) : y[1] = q
      BY <2>3, Zenon DEF IsUnderWay
    <3>2. IsUnderWay(q, B)
      BY <2>2, <3>1, Zenon DEF IsUnderWay
    <3>3. q # p
      BY <1>4, <3>2, Zenon
    <3> QED BY <3>1, <3>3, Zenon DEF IsUnderWay
  <2>4. Taken(en, th, disableWaitlist) \subseteq Taken(enabled, oobwThreads, disableWaitlist)
    BY <2>3, Zenon DEF Taken
  <2> QED BY <2>1, <2>4, FewerTaken, Zenon
<1> QED BY <1>3, <1>4, <1>5, <1>7, <1>8, Zenon DEF Tracked, B

\* The first critical section of the thread: it gives up only if its process is detached.
LEMMA StartOobwTracked ==
  ASSUME ProcessTypes, ListInv, ShutdownInv, OobwInv, NEW p \in Process, StartOobw(p)
  PROVE  OobwInv'
<1> DEFINE x == <<p, "starting">>
           goes == IsAlive /\ life[p] = "ALIVE" /\ enabled[p] = "DISABLED"
           th == oobwThreads \ {x}
<1>1. /\ x \in oobwThreads /\ x[1] = p
      /\ oobwThreads' = th \cup (IF goes THEN {<<p, "working">>} ELSE {})
      /\ UNCHANGED <<callbacks, enabled, oobwStatus, disableWaitlist, session>>
  BY Zenon DEF StartOobw
<1>2. IsTracks(callbacks, oobwThreads, disableWaitlist)
  BY Zenon DEF OobwInv, Tracked
<1>3. x \in Tracks(callbacks, oobwThreads, disableWaitlist)
  BY <1>1, Zenon DEF Tracks
<1>4. x \notin callbacks /\ x \notin OobwWaits(disableWaitlist)
  BY <1>1, <1>2, TracksDiffer, Zenon
<1>5. Tracks(callbacks, th, disableWaitlist)
        = Tracks(callbacks, oobwThreads, disableWaitlist) \ {x}
  BY <1>4, Zenon DEF Tracks
<1>6. IsTracks(callbacks, th, disableWaitlist) /\ th \subseteq oobwThreads
  BY <1>2, Zenon DEF IsTracks
<1>7. enabled[p] \in {"DISABLED", "DETACHED"} /\ \A r \in Request : session[r] # p
  BY <1>1, Zenon DEF OobwInv, Tracked, ThreadsAlone
<1>8. enabled[p] # "DETACHED" => oobwStatus[p] = "IN_PROGRESS"
  BY <1>1, <1>3, Zenon DEF OobwInv, Tracked, StatusMatches, IsUnderWay
<1>9. CASE ~goes
  <2>1. enabled[p] = "DETACHED"
    BY <1>7, <1>9, Zenon DEF ListInv, Live, ShutdownInv, ShutDownGroupIsEmpty
  <2>2. oobwThreads' = th
    BY <1>1, <1>9, Zenon
  <2> HIDE DEF x, th, goes
  <2>3. Tracked(callbacks, enabled, oobwStatus, th, disableWaitlist, session)
    BY <1>1, <1>3, <1>5, <1>6, <2>1, EndedTracked, Zenon
  <2> QED BY <1>1, <2>2, <2>3, KeepsOobwInv, Zenon
<1>10. CASE goes
  <2> DEFINE y == <<p, "working">>
             none == [oobwStatus EXCEPT ![p] = "NOT_ACTIVE"]
             A == Tracks(callbacks, th, disableWaitlist)
             B == Tracks(callbacks, oobwThreads', disableWaitlist)
  <2>1. oobwThreads' = th \cup {y} /\ y[1] = p
    BY <1>1, <1>10, Zenon
  <2>2. /\ \A q \in Process \ {p} : none[q] = oobwStatus[q]
        /\ none[p] # "IN_PROGRESS"
    BY Zenon DEF ProcessTypes, OobwTypes
  <2>3. B = A \cup {y}
    BY <2>1, Zenon DEF Tracks
  <2>4. IsTracks(callbacks, oobwThreads', disableWaitlist)
    BY <1>2, <2>1, SMTT(30) DEF IsTracks
  <2> HIDE DEF x, y, th, goes, none, A, B
  <2>5. /\ Tracked(callbacks, enabled, none, th, disableWaitlist, session)
        /\ ~IsUnderWay(p, A)
    BY <1>1, <1>3, <1>5, <1>6, <2>2, EndedTracked, Zenon DEF A
  <2>6. /\ OnlyOnce(B)
        /\ \A q : IsUnderWay(q, B) <=> IsUnderWay(q, A) \/ q = p
    BY <2>1, <2>3, <2>5, AddedTrack, SMTT(30) DEF Tracked, A
  <2>7. StatusMatches(enabled, oobwStatus, B)
    BY <1>8, <2>2, <2>5, <2>6 DEF Tracked, StatusMatches, A
  <2>8. ThreadsAlone(enabled, oobwThreads', session)
    BY <1>7, <2>1, <2>5, Zenon DEF Tracked, ThreadsAlone
  <2>9. FewTaken(enabled, oobwThreads', disableWaitlist)
    <3>1. oobwThreads' = (oobwThreads \ {x}) \cup {y} /\ y[1] = x[1] /\ x \in oobwThreads
      BY <1>1, <2>1, Zenon DEF th
    <3>2. \A q : IsUnderWay(q, oobwThreads' \cup OobwWaits(disableWaitlist)) =>
                 IsUnderWay(q, oobwThreads \cup OobwWaits(disableWaitlist))
      BY <3>1, Zenon DEF IsUnderWay
    <3>3. FewTaken(enabled, oobwThreads, disableWaitlist)
      BY Zenon DEF OobwInv, Tracked
    <3>4. Taken(enabled, oobwThreads', disableWaitlist)
            \subseteq Taken(enabled, oobwThreads, disableWaitlist)
      BY <3>2, Zenon DEF Taken
    <3> QED BY <3>3, <3>4, FewerTaken, Zenon
  <2>10. Tracked(callbacks, enabled, oobwStatus, oobwThreads', disableWaitlist, session)
    BY <2>4, <2>6, <2>7, <2>8, <2>9, Zenon DEF Tracked, B
  <2> QED BY <1>1, <2>10, KeepsOobwInv, Zenon
<1> QED BY <1>9, <1>10

\* The second critical section of the thread: its process goes back into rotation, and
\* work may start for another one.
LEMMA FinishOobwTracked ==
  ASSUME ProcessTypes, ListInv, ShutdownInv, OobwInv, NEW p \in Process, FinishOobw(p)
  PROVE  OobwInv'
<1> DEFINE x == <<p, "working">>
           th == oobwThreads \ {x}
           status == [oobwStatus EXCEPT ![p] = "NOT_ACTIVE"]
           en == [enabled EXCEPT ![p] = IF @ = "DISABLED" THEN "ENABLED" ELSE @]
<1>1. x \in oobwThreads /\ x[1] = p /\ UNCHANGED callbacks
  BY Zenon DEF FinishOobw
<1>2. IsTracks(callbacks, oobwThreads, disableWaitlist)
  BY DEF OobwInv, Tracked
<1>3. x \in Tracks(callbacks, oobwThreads, disableWaitlist)
  BY <1>1, Zenon DEF Tracks
<1>4. x \notin callbacks /\ x \notin OobwWaits(disableWaitlist)
  BY <1>1, <1>2, TracksDiffer, Zenon
<1>5. Tracks(callbacks, th, disableWaitlist)
        = Tracks(callbacks, oobwThreads, disableWaitlist) \ {x}
  BY <1>4, Zenon DEF Tracks
<1>6. IsTracks(callbacks, th, disableWaitlist) /\ th \subseteq oobwThreads
  BY <1>2, Zenon DEF IsTracks
<1>7. CASE /\ life[p] # "ALIVE" \/ ~IsAlive
           /\ oobwThreads' = th
           /\ UNCHANGED <<enabled, session, disableWaitlist, oobwStatus>>
  <2>1. enabled[p] = "DETACHED"
    BY <1>7, Zenon DEF ListInv, Live, ShutdownInv, ShutDownGroupIsEmpty
  <2> HIDE DEF x, th
  <2>2. Tracked(callbacks, enabled, oobwStatus, th, disableWaitlist, session)
    BY <1>1, <1>3, <1>5, <1>6, <2>1, EndedTracked, Zenon
  <2> QED BY <1>1, <1>7, <2>2, KeepsOobwInv, Zenon
<1>8. CASE /\ IF enabled[p] = "DISABLED" THEN AssignSessionsToGetWaiters(en, session)
              ELSE UNCHANGED <<session, waitVars>>
           /\ InitiateNextOobwRequest(en, status, session', th)
  <2>1. /\ \A q \in Process \ {p} : en[q] = enabled[q] /\ status[q] = oobwStatus[q]
        /\ status[p] # "IN_PROGRESS"
        /\ status \in [Process -> OobwStatus]
    BY Zenon DEF ProcessTypes, ListTypes, IsLists, OobwTypes, OobwStatus
  <2>2. IsLists(en, disableWaitlist) /\ getWaitlist \subseteq Request
    BY Zenon DEF ProcessTypes, ListTypes, IsLists, EnabledStatus, WaitTypes
  <2>3. Live(en, session)
    <3>1. \A q \in Process : /\ en[q] = "DETACHED" <=> enabled[q] = "DETACHED"
                             /\ en[q] = "DISABLED" => enabled[q] = "DISABLED"
      BY Zenon DEF ProcessTypes, ListTypes, IsLists
    <3> HIDE DEF en
    <3> QED BY <3>1, Zenon DEF ListInv, Live
  <2>4. Matches(en, disableWaitlist)
    <3>1. Disabling(en) = Disabling(enabled)
      BY Zenon DEF ProcessTypes, ListTypes, IsLists, Disabling, Status
    <3> HIDE DEF en
    <3> QED BY <3>1, Zenon DEF ListInv, Matches
  <2> HIDE DEF x, th, en, status
  <2>5. Tracked(callbacks, en, status, th, disableWaitlist, session)
    BY <1>1, <1>3, <1>5, <1>6, <2>1, EndedTracked, Zenon
  <2>6. Tracked(callbacks, en, status, th, disableWaitlist, session')
    BY <1>8, <2>2, <2>5, AssignTracked, Zenon
  <2>7. Live(en, session')
    BY <1>8, <2>2, <2>3, AssignLists, Zenon
  <2>8. ASSUME NEW q \in Enabled(en), ShouldInitiateOobw(q, en, status),
               InitiateOobw(q, en, status, session', disableWaitlist, th)
        PROVE  Tracked(callbacks, enabled', oobwStatus', oobwThreads', disableWaitlist', session')
    <3>1. /\ q \in Process /\ en[q] # "DETACHED" /\ status[q] # "IN_PROGRESS"
          /\ OobwAllowed(en, status)
      BY <2>8, Zenon DEF Enabled, Status, ShouldInitiateOobw
    <3>2. ~IsUnderWay(q, Tracks(callbacks, th, disableWaitlist))
      BY <2>6, <3>1, Zenon DEF Tracked, StatusMatches
    <3> QED BY <2>1, <2>2, <2>4, <2>6, <2>7, <2>8, <3>1, <3>2, InitiateOobwTracked, Zenon
            DEF Tracked, StatusMatches
  <2>9. Tracked(callbacks, enabled', oobwStatus', oobwThreads', disableWaitlist', session')
    BY <1>8, <2>6, <2>8, Zenon DEF InitiateNextOobwRequest
  <2> QED BY <1>1, <2>9, KeepsOobwInv, Zenon
<1> QED BY <1>7, <1>8, Zenon DEF FinishOobw

\* The callback of a disable command: the work starts, or is given up.
LEMMA LockAndMaybeInitiateOobwTracked ==
  ASSUME ProcessTypes, ListInv, ShutdownInv, OobwInv, NEW p \in Process,
         NEW result \in DisableResults, LockAndMaybeInitiateOobw(p, result)
  PROVE  OobwInv'
<1> DEFINE x == <<p, result>>
           cb == callbacks \ {x}
           requested == [oobwStatus EXCEPT ![p] = "REQUESTED"]
           none == [oobwStatus EXCEPT ![p] = "NOT_ACTIVE"]
<1>1. x \in callbacks /\ x[1] = p /\ callbacks' = cb /\ UNCHANGED session
  BY Zenon DEF LockAndMaybeInitiateOobw
<1>2. IsTracks(callbacks, oobwThreads, disableWaitlist)
  BY Zenon DEF OobwInv, Tracked
<1>3. x \in Tracks(callbacks, oobwThreads, disableWaitlist)
  BY <1>1, Zenon DEF Tracks
<1>4. x \notin oobwThreads /\ x \notin OobwWaits(disableWaitlist)
  BY <1>1, <1>2, TracksDiffer, Zenon
<1>5. Tracks(cb, oobwThreads, disableWaitlist)
        = Tracks(callbacks, oobwThreads, disableWaitlist) \ {x}
  BY <1>4, Zenon DEF Tracks
<1>6. IsTracks(cb, oobwThreads, disableWaitlist)
  BY <1>2, Zenon DEF IsTracks
<1>7. /\ requested \in [Process -> OobwStatus]
      /\ requested[p] # "IN_PROGRESS" /\ none[p] # "IN_PROGRESS"
      /\ \A q \in Process \ {p} : requested[q] = oobwStatus[q] /\ none[q] = oobwStatus[q]
  BY Zenon DEF ProcessTypes, OobwTypes, OobwStatus
<1>8. /\ IsLists(enabled, disableWaitlist)
      /\ Matches(enabled, disableWaitlist) /\ Live(enabled, session)
  BY Zenon DEF ProcessTypes, ListTypes, ListInv
<1>9. CASE /\ life[p] # "ALIVE" \/ ~IsAlive
           /\ UNCHANGED <<enabled, disableWaitlist, oobwVars>>
  <2>1. enabled[p] = "DETACHED"
    BY <1>9, Zenon DEF ListInv, Live, ShutdownInv, ShutDownGroupIsEmpty
  <2> HIDE DEF x, cb
  <2>2. Tracked(cb, enabled, oobwStatus, oobwThreads, disableWaitlist, session)
    BY <1>1, <1>3, <1>5, <1>6, <2>1, EndedTracked, Zenon
  <2> QED BY <1>1, <1>9, <2>2, KeepsOobwInv, Zenon DEF oobwVars
<1>10. CASE /\ enabled[p] = "DISABLED" /\ OobwAllowed(enabled, requested)
            /\ InitiateOobw(p, enabled, requested, session, disableWaitlist, oobwThreads)
  <2> HIDE DEF x, cb, requested, none
  <2>1. /\ \A q \in Process \ {p} : enabled[q] = enabled[q] /\ requested[q] = oobwStatus[q]
        /\ enabled[p] # "DETACHED" => requested[p] # "IN_PROGRESS"
        /\ oobwThreads \subseteq oobwThreads
    BY <1>7, Zenon
  <2>2. /\ Tracked(cb, enabled, requested, oobwThreads, disableWaitlist, session)
        /\ ~IsUnderWay(p, Tracks(cb, oobwThreads, disableWaitlist))
    BY <1>1, <1>3, <1>5, <1>6, <2>1, EndedTracked, Zenon
  <2>3. Tracked(cb, enabled', oobwStatus', oobwThreads', disableWaitlist', session)
    BY <1>7, <1>8, <1>10, <2>2, InitiateOobwTracked, Zenon DEF Tracked, StatusMatches
  <2> QED BY <1>1, <2>3, KeepsOobwInv, Zenon
<1>11. CASE oobwStatus' = none /\ UNCHANGED <<enabled, disableWaitlist, oobwThreads>>
  <2> HIDE DEF x, cb, requested, none
  <2>1. Tracked(cb, enabled, none, oobwThreads, disableWaitlist, session)
    BY <1>1, <1>3, <1>5, <1>6, <1>7, EndedTracked, Zenon
  <2> QED BY <1>1, <1>11, <2>1, KeepsOobwInv
<1> QED BY <1>9, <1>10, <1>11, Zenon DEF LockAndMaybeInitiateOobw, ShouldInitiateOobw

\* attach(): nothing is under way for the new process.
LEMMA AttachSpawnedTracked ==
  ASSUME ProcessTypes, ListInv, OobwInv, NEW p \in Process, NEW otherWaits \in BOOLEAN,
         AttachSpawned(p, otherWaits)
  PROVE  OobwInv'
<1> DEFINE idle == {q \in Process : WaitersFor({q}) # {} /\ Sessions(q, session) = {}}
           W == WaitersFor(idle)
           en == [q \in Process |-> IF q \in idle THEN "DISABLED" ELSE enabled[q]]
           cb == callbacks \cup OobwCallbacks(W, "SUCCESS")
           dw == disableWaitlist \ W
<1>1. /\ enabled' = [q \in Process |-> IF q = p THEN "ENABLED"
                                       ELSE IF q \in idle THEN "DISABLED" ELSE enabled[q]]
      /\ disableWaitlist' = dw /\ callbacks' = cb /\ UNCHANGED oobwThreads
      /\ oobwStatus' = [oobwStatus EXCEPT ![p] = "NOT_ACTIVE"]
  BY Zenon DEF AttachSpawned
<1>2. \A x \in callbacks \cup oobwThreads \cup disableWaitlist : x[1] # p
  BY Zenon DEF AttachSpawned, Unused
<1>3. \A q \in idle : enabled[q] = "DISABLING"
  BY Zenon DEF WaitersFor, ListInv, Matches, Disabling, Status
<1>4. W \in SUBSET disableWaitlist /\ "SUCCESS" \in DisableResults
  BY Zenon DEF WaitersFor, DisableResults
<1>5. \A q \in Process \ {p} : enabled'[q] = en[q] /\ oobwStatus'[q] = oobwStatus[q]
  BY <1>1, Zenon DEF ProcessTypes, OobwTypes
<1>6. enabled'[p] = "ENABLED" /\ oobwStatus'[p] = "NOT_ACTIVE"
  BY <1>1, Zenon DEF ProcessTypes, OobwTypes
<1>7. en \in [Process -> EnabledStatus]
  BY Zenon DEF ProcessTypes, ListTypes, IsLists, EnabledStatus
<1>8. \A q \in Process : en[q] = enabled[q] \/ (en[q] = "DISABLED" /\ enabled[q] = "DISABLING")
  BY <1>3, Zenon
<1>9. \A t \in oobwThreads : t[1] \in Process
  BY Zenon DEF OobwInv, Tracked, IsTracks
<1> HIDE DEF idle, W, en
<1>10. ThreadsAlone(en, oobwThreads, session)
  BY <1>8, <1>9, Zenon DEF OobwInv, Tracked, ThreadsAlone
<1>11. Tracked(cb, en, oobwStatus, oobwThreads, dw, session)
  BY <1>4, <1>7, <1>8, <1>10, AnsweredTracked, Zenon
<1>12. ~IsUnderWay(p, Tracks(cb, oobwThreads, dw))
  <2>1. \A x \in OobwCallbacks(W, "SUCCESS") : x[1] # p
    BY <1>2, <1>4, SMTT(30) DEF OobwCallbacks
  <2> QED BY <1>2, <2>1, Zenon DEF IsUnderWay, Tracks, OobwWaits
<1> HIDE DEF cb, dw
<1>13. Tracked(cb, enabled', oobwStatus', oobwThreads, dw, session)
  <2>1. StatusMatches(enabled', oobwStatus', Tracks(cb, oobwThreads, dw))
    BY <1>5, <1>6, <1>11, <1>12, Zenon DEF Tracked, StatusMatches
  <2>2. ThreadsAlone(enabled', oobwThreads, session)
    BY <1>2, <1>5, <1>9, <1>10, Zenon DEF ThreadsAlone
  <2>3. FewTaken(enabled', oobwThreads, dw)
    <3>1. FewTaken(en, oobwThreads, dw)
      BY <1>11, Zenon DEF Tracked
    <3>2. ~IsUnderWay(p, oobwThreads \cup OobwWaits(dw))
      BY <1>12, Zenon DEF IsUnderWay, Tracks
    <3>3. Taken(enabled', oobwThreads, dw) \subseteq Taken(en, oobwThreads, dw)
      BY <1>5, <3>2, Zenon DEF Taken
    <3> QED BY <3>1, <3>3, FewerTaken, Zenon
  <2> QED BY <1>11, <2>1, <2>2, <2>3, Zenon DEF Tracked
<1>14. Tracked(cb, enabled', oobwStatus', oobwThreads, dw, session')
  <2>1. CASE UNCHANGED session
    BY <1>13, <2>1, Zenon
  <2>2. CASE AssignSessionsToGetWaiters(enabled', session)
    <3>1. getWaitlist \subseteq Request
      BY DEF ProcessTypes, WaitTypes
    <3> QED BY <1>13, <2>2, <3>1, AssignTracked, Zenon
  <2> QED BY <2>1, <2>2, Zenon DEF AttachSpawned
<1> QED BY <1>1, <1>14, KeepsOobwInv, Zenon

\* A failed spawn gives up the disable commands if no process is enabled.
LEMMA SpawnFailedTracked ==
  ASSUME ProcessTypes, OobwInv, SpawnFailed
  PROVE  OobwInv'
<1>1. UNCHANGED <<session, oobwVars>>
  BY Zenon DEF SpawnFailed
<1>2. CASE UNCHANGED <<enabled, disableWaitlist, callbacks>>
  BY <1>1, <1>2, KeepsOobwInv, Zenon DEF OobwInv, oobwVars
<1>3. CASE /\ enabled' = [p \in Process |->
                            IF WaitersFor({p}) # {} /\ enabled[p] = "DISABLING"
                            THEN "ENABLED" ELSE enabled[p]]
           /\ disableWaitlist' = {}
           /\ callbacks' = callbacks \cup OobwCallbacks(disableWaitlist, "ERROR")
  <2>1. enabled' \in [Process -> EnabledStatus]
    BY <1>3, Zenon DEF ProcessTypes, ListTypes, IsLists, EnabledStatus
  <2>2. \A q \in Process : enabled'[q] = enabled[q] \/ enabled[q] = "DISABLING"
    BY <1>3, Zenon
  <2>3. \A t \in oobwThreads : t[1] \in Process
    BY Zenon DEF OobwInv, Tracked, IsTracks
  <2>4. ThreadsAlone(enabled', oobwThreads, session)
    BY <2>2, <2>3, Zenon DEF OobwInv, Tracked, ThreadsAlone
  <2>5. disableWaitlist' = disableWaitlist \ disableWaitlist
    BY <1>3, Zenon
  <2>6. Tracked(callbacks', enabled', oobwStatus, oobwThreads, disableWaitlist', session)
    BY <1>3, <2>1, <2>2, <2>4, <2>5, AnsweredTracked, Zenon DEF DisableResults
  <2> QED BY <1>1, <2>6, KeepsOobwInv, Zenon DEF oobwVars
<1> QED BY <1>2, <1>3, Zenon DEF SpawnFailed

\* An administrator who disables a process does not touch one that does out-of-band
\* work: such a process is disabled already.
LEMMA DisableTracked ==
  ASSUME ProcessTypes, OobwInv, NEW a \in Admin, NEW p \in Process, DisableProcess(a, p)
  PROVE  OobwInv'
<1> DEFINE res == DisableResult(p, enabled, session)
<1>1. /\ enabled' = [enabled EXCEPT ![p] = IF res = "DEFERRED" THEN "DISABLING"
                                           ELSE IF res = "SUCCESS" THEN "DISABLED" ELSE @]
      /\ disableWaitlist' = IF res = "DEFERRED" THEN disableWaitlist \cup {<<p, a>>}
                            ELSE disableWaitlist
      /\ enabled[p] # "DETACHED"
      /\ UNCHANGED <<callbacks, oobwVars, session>>
  BY DEF DisableProcess, Disable
<1>2. res \in {"DEFERRED", "SUCCESS"} => enabled[p] \in {"ENABLED", "DISABLING"}
  BY DEF DisableResult
<1>3. a # "oobw" /\ a \in Waiter
  BY GroupAssumption DEF Waiter
<1> HIDE DEF res
<1>4. \A q \in Process : \/ enabled'[q] = enabled[q]
                          \/ /\ enabled[q] \in {"ENABLED", "DISABLING"}
                             /\ enabled'[q] \in {"DISABLING", "DISABLED"}
  BY <1>1, <1>2 DEF ProcessTypes, ListTypes, IsLists
<1>5. OobwWaits(disableWaitlist') = OobwWaits(disableWaitlist)
  BY <1>1, <1>3 DEF OobwWaits
<1>6. IsTracks(callbacks, oobwThreads, disableWaitlist')
  BY <1>1, <1>3, SMTT(30) DEF OobwInv, Tracked, IsTracks
<1>7. \A t \in oobwThreads : t[1] \in Process
  BY Zenon DEF OobwInv, Tracked, IsTracks
<1>8. ThreadsAlone(enabled', oobwThreads, session)
  BY <1>4, <1>7, Zenon DEF OobwInv, Tracked, ThreadsAlone
<1>9. StatusMatches(enabled', oobwStatus, Tracks(callbacks, oobwThreads, disableWaitlist))
  BY <1>4, Zenon DEF OobwInv, Tracked, StatusMatches
<1>10. FewTaken(enabled', oobwThreads, disableWaitlist')
  <2>1. FewTaken(enabled, oobwThreads, disableWaitlist)
    BY Zenon DEF OobwInv, Tracked
  <2>2. Taken(enabled', oobwThreads, disableWaitlist')
          \subseteq Taken(enabled, oobwThreads, disableWaitlist)
    BY <1>4, <1>5, Zenon DEF Taken
  <2> QED BY <2>1, <2>2, FewerTaken, Zenon
<1>11. Tracked(callbacks, enabled', oobwStatus, oobwThreads, disableWaitlist', session)
  BY <1>5, <1>6, <1>8, <1>9, <1>10, Zenon DEF OobwInv, Tracked, Tracks
<1> QED BY <1>1, <1>11, KeepsOobwInv DEF oobwVars

\* Every step keeps the out-of-band work tracked.
LEMMA OobwInvStep ==
  ASSUME ProcessTypes, ProcessTypes', ListInv, ShutdownInv, OobwInv, [Next]_vars
  PROVE  OobwInv'
<1>1. ASSUME UNCHANGED <<callbacks, enabled, oobwVars, disableWaitlist, session>>
      PROVE  OobwInv'
  BY <1>1, KeepsOobwInv, Zenon DEF OobwInv, oobwVars
<1>2. ASSUME NEW S, Detach(S), UNCHANGED <<oobwVars, session>>
      PROVE  OobwInv'
  <2>1. Tracked(callbacks', enabled', oobwStatus, oobwThreads, disableWaitlist', session)
    BY <1>2, DetachTracked, Zenon
  <2> QED BY <1>2, <2>1, KeepsOobwInv, Zenon DEF oobwVars
<1>3. ASSUME DetachAll, UNCHANGED <<oobwVars, session>>
      PROVE  OobwInv'
  BY <1>3, DetachAllTracked, KeepsOobwInv, Zenon DEF oobwVars
<1>4. CASE UNCHANGED vars
  BY <1>1, <1>4, Zenon DEF vars
<1>5. ASSUME NEW r \in Request, NEW s \in Process \cup {NoProcess},
             NEW needsRestart \in BOOLEAN, NEW freed \in BOOLEAN,
             Get(r, s, needsRestart, freed)
      PROVE  OobwInv'
  <2>1. UNCHANGED oobwVars /\ GetSession(r, s, enabled', restarting')
    BY <1>5, Zenon DEF Get
  <2>2. DetachAll \/ UNCHANGED <<enabled, disableWaitlist, callbacks>>
    BY <1>5, Zenon DEF Get, Restart
  <2>3. Tracked(callbacks', enabled', oobwStatus, oobwThreads, disableWaitlist', session)
    BY <2>2, DetachAllTracked DEF OobwInv
  <2>4. session \in [Request -> Target]
    BY DEF ProcessTypes, WaitTypes
  <2>5. Tracked(callbacks', enabled', oobwStatus, oobwThreads, disableWaitlist', session')
    BY <2>1, <2>3, <2>4, GetSessionTracked
  <2> QED BY <2>1, <2>5, KeepsOobwInv, Zenon DEF oobwVars
<1>6. ASSUME NEW r \in Request, RequestOOBW(r)
      PROVE  OobwInv'
  <2>1. /\ UNCHANGED <<callbacks, enabled, oobwThreads, disableWaitlist, session>>
        /\ \A p \in Process : oobwStatus'[p] = "IN_PROGRESS" <=> oobwStatus[p] = "IN_PROGRESS"
    BY <1>6 DEF RequestOOBW, ProcessTypes, OobwTypes
  <2>2. StatusMatches(enabled, oobwStatus', Tracks(callbacks, oobwThreads, disableWaitlist))
    BY <2>1 DEF OobwInv, Tracked, StatusMatches
  <2>3. Tracked(callbacks, enabled, oobwStatus', oobwThreads, disableWaitlist, session)
    BY <2>2, Zenon DEF OobwInv, Tracked
  <2> QED BY <2>1, <2>3, KeepsOobwInv
<1>7. ASSUME NEW r \in Request, OnSessionInitiateFailure(r)
      PROVE  OobwInv'
  BY <1>2, <1>7, Zenon DEF OnSessionInitiateFailure, DetachProcessUnlocked
<1>8. ASSUME NEW r \in Request, NEW needed \in BOOLEAN, OnSessionClose(r, needed)
      PROVE  OobwInv'
  BY <1>8, OnSessionCloseTracked, Zenon
<1>9. ASSUME NEW e \in 0..MaxRestarts, AbortSpawn(e)
      PROVE  OobwInv'
  BY <1>1, <1>9, Zenon DEF AbortSpawn
<1>10. ASSUME NEW p \in Process, NEW otherWaits \in BOOLEAN, AttachSpawned(p, otherWaits)
      PROVE  OobwInv'
  BY <1>10, AttachSpawnedTracked
<1>11. ASSUME NEW otherWaits \in BOOLEAN, RejectSpawned(otherWaits)
      PROVE  OobwInv'
  BY <1>1, <1>11, Zenon DEF RejectSpawned
<1>12. CASE SpawnFailed
  BY <1>12, SpawnFailedTracked, Zenon
<1>13. CASE RestartGroup
  BY <1>3, <1>13, Zenon DEF RestartGroup, Restart
<1>14. ASSUME NEW e \in 1..MaxRestarts, NEW freed \in BOOLEAN, FinalizeRestart(e, freed)
      PROVE  OobwInv'
  BY <1>1, <1>14, Zenon DEF FinalizeRestart
<1>15. ASSUME NEW p \in Process, NEW result \in DisableResults,
              LockAndMaybeInitiateOobw(p, result)
      PROVE  OobwInv'
  BY <1>15, LockAndMaybeInitiateOobwTracked, Zenon
<1>16. ASSUME NEW p \in Process, StartOobw(p) \/ FinishOobw(p)
      PROVE  OobwInv'
  BY <1>16, StartOobwTracked, FinishOobwTracked, Zenon
<1>17. ASSUME NEW p \in Process, DetachProcess(p) \/ ForceFreeCapacity(p)
      PROVE  OobwInv'
  BY <1>2, <1>17, Zenon DEF DetachProcess, DetachProcessUnlocked, ForceFreeCapacity
<1>18. ASSUME NEW a \in Admin, NEW p \in Process, DisableProcess(a, p)
      PROVE  OobwInv'
  BY <1>18, DisableTracked, Zenon
<1>19. ASSUME NEW S \in SUBSET Process, GarbageCollect(S)
      PROVE  OobwInv'
  BY <1>2, <1>19, Zenon DEF GarbageCollect
<1>20. ASSUME NEW exited \in SUBSET Detached, CheckDetachedProcesses(exited)
      PROVE  OobwInv'
  BY <1>1, <1>20, Zenon DEF CheckDetachedProcesses
<1>21. CASE Shutdown
  BY <1>3, <1>21, Zenon DEF Shutdown
<1>22. CASE RoomChanges \/ CapacityFreed
  BY <1>1, <1>22, Zenon DEF RoomChanges, CapacityFreed
<1> QED
  BY <1>4, <1>5, <1>6, <1>7, <1>8, <1>9, <1>10, <1>11, <1>12, <1>13, <1>14, <1>15, <1>16,
     <1>17, <1>18, <1>19, <1>20, <1>21, <1>22, Zenon DEF Next

\* Out-of-band work stays tracked.
LEMMA OobwInvHolds == Spec => []OobwInv
<1>1. Init => OobwInv
  <2> SUFFICES ASSUME Init PROVE OobwInv
    BY Zenon
  <2>1. Tracks(callbacks, oobwThreads, disableWaitlist) = {}
    BY Zenon DEF Init, Tracks, OobwWaits
  <2>2. IsTracks(callbacks, oobwThreads, disableWaitlist)
    BY Zenon DEF Init, IsTracks
  <2>3. ThreadsAlone(enabled, oobwThreads, session)
    BY Zenon DEF Init, ThreadsAlone
  <2>4. StatusMatches(enabled, oobwStatus, {}) /\ OnlyOnce({})
    BY Zenon DEF Init, StatusMatches, OnlyOnce, IsUnderWay
  <2>5. FewTaken(enabled, oobwThreads, disableWaitlist)
    <3>1. Taken(enabled, oobwThreads, disableWaitlist) = {}
      BY Zenon DEF Init, Taken
    <3> QED BY <3>1, FS_EmptySet, GroupAssumption, SMTT(30) DEF FewTaken
  <2> QED BY <2>1, <2>2, <2>3, <2>4, <2>5, Zenon DEF OobwInv, Tracked
<1>2. /\ ProcessTypes /\ ProcessTypes' /\ ListInv /\ ShutdownInv /\ OobwInv
      /\ [Next]_vars
      => OobwInv'
  BY OobwInvStep, Zenon
<1> QED BY <1>1, <1>2, ProcessTypesHold, ListInvHolds, ShutdownInvHolds, PTL DEF Spec

\* What OobwTracks names is what OobwInv is about.
LEMMA OobwTracksOf ==
  ASSUME OobwInv, NEW p \in Process
  PROVE  OobwTracks(p) = {x \in Tracks(callbacks, oobwThreads, disableWaitlist) : x[1] = p}
<1>1. \A w \in disableWaitlist : w = <<p, "oobw">> <=> w[1] = p /\ w[2] = "oobw"
  BY SMTT(30) DEF OobwInv, Tracked, IsTracks
<1> QED BY <1>1, Zenon DEF OobwTracks, Tracks, OobwWaits

\* The status of out-of-band work is neither lost nor stuck, and two callbacks or threads
\* never work on the same process: whatever detaches, disables, restarts or fails to
\* spawn in between.
THEOREM OobwIsTrackedOnce == Spec => []OobwTrackedOnce
<1>1. OobwInv => OobwTrackedOnce
  <2> SUFFICES ASSUME OobwInv, NEW p \in Process
               PROVE  /\ Cardinality(OobwTracks(p)) <= 1
                      /\ enabled[p] # "DETACHED" =>
                           (oobwStatus[p] = "IN_PROGRESS" <=> OobwTracks(p) # {})
    BY Zenon DEF OobwTrackedOnce
  <2> DEFINE A == Tracks(callbacks, oobwThreads, disableWaitlist)
             T == OobwTracks(p)
  <2>1. T = {x \in A : x[1] = p}
    BY OobwTracksOf, Zenon
  <2>2. OnlyOnce(A) /\ StatusMatches(enabled, oobwStatus, A)
    BY Zenon DEF OobwInv, Tracked
  <2> HIDE DEF A, T
  <2>3. \A x, y \in T : x = y
    BY <2>1, <2>2, Zenon DEF OnlyOnce
  <2>4. Cardinality(T) <= 1
    <3>1. CASE T = {}
      BY <3>1, FS_EmptySet, SMTT(30)
    <3>2. ASSUME NEW x \in T PROVE Cardinality(T) = 1
      <4>1. T = {x}
        BY <2>3, <3>2, Zenon
      <4> QED BY <4>1, FS_Singleton, Zenon
    <3> QED BY <3>1, <3>2, SMTT(30)
  <2>5. T # {} <=> IsUnderWay(p, A)
    BY <2>1, Zenon DEF IsUnderWay
  <2> QED BY <2>2, <2>4, <2>5, Zenon DEF StatusMatches, T
<1> QED BY <1>1, OobwInvHolds, PTL

\* A process that does out-of-band work serves no session, and no more processes are
\* taken out for it than maxOutOfBandWorkInstances allows, although oobwAllowed() is asked
\* before the disable command, its callback and the thread have run.
THEOREM OobwAlwaysRunsAlone == Spec => []OobwRunsAlone
<1>1. OobwInv => OobwRunsAlone
  <2> SUFFICES ASSUME OobwInv PROVE OobwRunsAlone
    BY Zenon
  <2>1. \A t \in oobwThreads : Sessions(t[1], session) = {}
    BY Zenon DEF OobwInv, Tracked, ThreadsAlone, Sessions
  <2>2. ASSUME NEW p \in Process
        PROVE  OobwTracks(p) \ callbacks # {} <=>
                 IsUnderWay(p, oobwThreads \cup OobwWaits(disableWaitlist))
    <3>1. IsTracks(callbacks, oobwThreads, disableWaitlist)
      BY Zenon DEF OobwInv, Tracked
    <3>2. OobwTracks(p) \ callbacks
            = {x \in oobwThreads \cup OobwWaits(disableWaitlist) : x[1] = p}
      BY <3>1, OobwTracksOf, TracksDiffer, SMTT(30) DEF Tracks
    <3> QED BY <3>2, Zenon DEF IsUnderWay
  <2>3. Taken(enabled, oobwThreads, disableWaitlist)
          = {p \in Process : enabled[p] # "DETACHED" /\ OobwTracks(p) \ callbacks # {}}
    BY <2>2, Zenon DEF Taken
  <2>4. FewTaken(enabled, oobwThreads, disableWaitlist)
    BY DEF OobwInv, Tracked
  <2> QED BY <2>1, <2>3, <2>4, Zenon DEF OobwRunsAlone, FewTaken
<1> QED BY <1>1, OobwInvHolds, PTL

=============================================================================
